---- MODULE Spec2Model ----
(***************************************************************************)
(* Microstrip patch antenna calculator: the numeric core (rectangular and  *)
(* circular patch, forward and reverse solvers) and the two React hooks    *)
(* that drive it.                                                          *)
(*                                                                         *)
(* Numbers.  The program computes with JavaScript `number` (IEEE-754       *)
(* binary64).  The model computes with a decimal floating-point format of  *)
(* the same shape: not-a-number, the two infinities, zero, and finite      *)
(* values m * 10^e with a four digit mantissa (1000 <= |m| <= 9999),       *)
(* round-to-nearest after every operation, overflow to infinity above      *)
(* 10^308 and underflow to zero below 10^-324.  Every comparison with      *)
(* not-a-number is false, as in the program.  A value is the record        *)
(* [c, m, e]: c is "nan", "inf" (m the sign) or "fin".                     *)
(***************************************************************************)
EXTENDS Integers, Sequences, FiniteSets, TLC

NaN    == [c |-> "nan", m |-> 0, e |-> 0]
PosInf == [c |-> "inf", m |-> 1, e |-> 0]
NegInf == [c |-> "inf", m |-> -1, e |-> 0]
Zero   == [c |-> "fin", m |-> 0, e |-> 0]

AbsI(i) == IF i < 0 THEN -i ELSE i
SgnI(i) == IF i > 0 THEN 1 ELSE IF i < 0 THEN -1 ELSE 0

Pow10(d) ==
  CASE d = 0 -> 1 [] d = 1 -> 10 [] d = 2 -> 100 [] d = 3 -> 1000
    [] d = 4 -> 10000 [] d = 5 -> 100000 [] d = 6 -> 1000000
    [] d = 7 -> 10000000 [] d = 8 -> 100000000 [] OTHER -> 1000000000

\* Number of decimal digits of a natural number a > 0.
Digits(a) ==
  IF a < 10 THEN 1 ELSE IF a < 100 THEN 2 ELSE IF a < 1000 THEN 3
  ELSE IF a < 10000 THEN 4 ELSE IF a < 100000 THEN 5
  ELSE IF a < 1000000 THEN 6 ELSE IF a < 10000000 THEN 7
  ELSE IF a < 100000000 THEN 8 ELSE IF a < 1000000000 THEN 9 ELSE 10

\* The finite value s * a * 10^e (s the sign, a > 0), rounded to four digits;
\* infinity on overflow, zero on underflow.
Round(s, a, e) ==
  LET d  == Digits(a) - 4
      q0 == IF d <= 0 THEN a * Pow10(-d)
            ELSE (a + 5 * Pow10(d - 1)) \div Pow10(d)
      q  == IF q0 = 10000 THEN 1000 ELSE q0
      x  == IF q0 = 10000 THEN e + d + 1 ELSE e + d
  IN  IF x + 3 > 308 THEN [c |-> "inf", m |-> s, e |-> 0]
      ELSE IF x + 3 < -324 THEN Zero
      ELSE [c |-> "fin", m |-> s * q, e |-> x]

\* The number m * 10^e, and the same for a mantissa that has its four digits.
Num(m, e) == IF m = 0 THEN Zero ELSE Round(SgnI(m), AbsI(m), e)
Fl(m, e)  == [c |-> "fin", m |-> m, e |-> e]

IsNaN(x)    == x.c = "nan"
IsFinite(x) == x.c = "fin"

\* Each operation below comes in two layers: XV computes on values, and X
\* binds its operands once and applies XV, so that an operand expression is
\* evaluated once however often XV refers to it.
NegV(x) == IF x.c = "nan" THEN NaN ELSE [x EXCEPT !.m = -x.m]
Neg(x) == CHOOSE r \in {NegV(xv) : xv \in {x}} : TRUE
AbsV(x) == IF x.m < 0 THEN Neg(x) ELSE x
Abs(x) == CHOOSE r \in {AbsV(xv) : xv \in {x}} : TRUE

\* a < b for two finite values.
FinLt(a, b) ==
  LET sa == SgnI(a.m)
      sb == SgnI(b.m)
  IN  IF sa # sb THEN sa < sb
      ELSE IF sa = 0 THEN FALSE
      ELSE IF sa = 1 THEN a.e < b.e \/ (a.e = b.e /\ a.m < b.m)
      ELSE a.e > b.e \/ (a.e = b.e /\ a.m < b.m)

\* The comparisons of the program: false as soon as an operand is NaN.
LtV(a, b) ==
  /\ a.c # "nan"
  /\ b.c # "nan"
  /\ IF a.c = "inf" THEN a.m = -1 /\ b # NegInf
     ELSE IF b.c = "inf" THEN b.m = 1
     ELSE FinLt(a, b)
Lt(a, b) == CHOOSE r \in {LtV(av, bv) : av \in {a}, bv \in {b}} : TRUE
LeV(a, b) == a.c # "nan" /\ b.c # "nan" /\ (a = b \/ Lt(a, b))
Le(a, b) == CHOOSE r \in {LeV(av, bv) : av \in {a}, bv \in {b}} : TRUE
Gt(a, b) == Lt(b, a)
Ge(a, b) == Le(b, a)

MulV(a, b) ==
  IF a.c = "nan" \/ b.c = "nan" THEN NaN
  ELSE IF a.c = "inf" \/ b.c = "inf"
    THEN IF a.m = 0 \/ b.m = 0 THEN NaN
         ELSE [c |-> "inf", m |-> SgnI(a.m) * SgnI(b.m), e |-> 0]
  ELSE IF a.m = 0 \/ b.m = 0 THEN Zero
  ELSE Round(SgnI(a.m) * SgnI(b.m), AbsI(a.m) * AbsI(b.m), a.e + b.e)
Mul(a, b) == CHOOSE r \in {MulV(av, bv) : av \in {a}, bv \in {b}} : TRUE

DivV(a, b) ==
  IF a.c = "nan" \/ b.c = "nan" THEN NaN
  ELSE IF a.c = "inf"
    THEN IF b.c = "inf" THEN NaN
         ELSE [c |-> "inf", m |-> a.m * (IF b.m < 0 THEN -1 ELSE 1), e |-> 0]
  ELSE IF b.c = "inf" THEN Zero
  ELSE IF b.m = 0
    THEN IF a.m = 0 THEN NaN ELSE [c |-> "inf", m |-> SgnI(a.m), e |-> 0]
  ELSE IF a.m = 0 THEN Zero
  ELSE Round(SgnI(a.m) * SgnI(b.m),
             (AbsI(a.m) * 100000) \div AbsI(b.m), a.e - b.e - 5)
Div(a, b) == CHOOSE r \in {DivV(av, bv) : av \in {a}, bv \in {b}} : TRUE

\* a + b for two finite non-zero values with a.e >= b.e.
AddMantissa(t, e) == IF t = 0 THEN Zero ELSE Round(SgnI(t), AbsI(t), e)
AddAligned(a, b) ==
  IF a.e - b.e > 5 THEN a ELSE AddMantissa(a.m * Pow10(a.e - b.e) + b.m, b.e)

AddV(a, b) ==
  IF a.c = "nan" \/ b.c = "nan" THEN NaN
  ELSE IF a.c = "inf"
    THEN IF b.c = "inf" /\ b.m # a.m THEN NaN ELSE a
  ELSE IF b.c = "inf" THEN b
  ELSE IF a.m = 0 THEN b
  ELSE IF b.m = 0 THEN a
  ELSE AddAligned(IF a.e >= b.e THEN a ELSE b, IF a.e >= b.e THEN b ELSE a)
Add(a, b) == CHOOSE r \in {AddV(av, bv) : av \in {a}, bv \in {b}} : TRUE

Sub(a, b) == Add(a, Neg(b))

\* The integer square root of n >= 0, by bisection on [lo, hi).
RECURSIVE ISqrtIn(_, _, _)
ISqrtIn(n, lo, hi) ==
  IF hi - lo <= 1 THEN lo
  ELSE CHOOSE r \in {IF mid * mid <= n THEN ISqrtIn(n, mid, hi)
                                        ELSE ISqrtIn(n, lo, mid) :
                      mid \in {(lo + hi) \div 2}} : TRUE
ISqrt(n) == ISqrtIn(n, 0, 31623)

\* Math.sqrt
SqrtV(x) ==
  IF x.c = "nan" THEN NaN
  ELSE IF x.m < 0 THEN NaN
  ELSE IF x.c = "inf" THEN PosInf
  ELSE IF x.m = 0 THEN Zero
  ELSE IF x.e % 2 = 0 THEN Round(1, ISqrt(x.m * 10000), (x.e - 4) \div 2)
  ELSE Round(1, ISqrt(x.m * 100000), (x.e - 5) \div 2)
Sqrt(x) == CHOOSE r \in {SqrtV(xv) : xv \in {x}} : TRUE

One  == Fl(1000, -3)
Two  == Fl(2000, -3)
Ten  == Fl(1000, -2)
Half == Fl(5000, -4)
\* Math.PI
PI   == Fl(3142, -3)
\* Math.LN2 and Math.LN10, the constants of the logarithm below
LN2  == Fl(6931, -4)
LN10 == Fl(2303, -3)

\* Halves y (>= 1) until it is below 2; <<the reduced value, the halvings>>.
RECURSIVE LogReduce(_, _)
LogReduce(y, k) ==
  IF Ge(y, Two)
  THEN CHOOSE r \in {LogReduce(yv, k + 1) : yv \in {Div(y, Two)}} : TRUE
  ELSE <<y, k>>

\* Math.log: ln(m * 10^e) = ln(y) + k ln 2 + (e + 3) ln 10 with y in [1, 2),
\* ln(y) = 2 (z + z^3/3 + z^5/5 + z^7/7), z = (y - 1)/(y + 1).
LogSeries(z, z2) ==
  Mul(Two, Mul(z, Add(One, Mul(z2, Add(Fl(3333, -4),
                   Mul(z2, Add(Fl(2000, -4), Mul(z2, Fl(1429, -4)))))))))
LogAtanh(z) == CHOOSE r \in {LogSeries(zv, Mul(zv, zv)) : zv \in {z}} : TRUE
LogParts(r, e) ==
  Add(LogAtanh(Div(Sub(r[1], One), Add(r[1], One))),
      Add(Mul(Num(r[2], 0), LN2), Mul(Num(e + 3, 0), LN10)))
LogV(x) ==
  IF x.c = "nan" THEN NaN
  ELSE IF x.m < 0 THEN NaN
  ELSE IF x.c = "inf" THEN PosInf
  ELSE IF x.m = 0 THEN NegInf
  ELSE CHOOSE r \in {LogParts(yk, x.e) :
                       yk \in {LogReduce([c |-> "fin", m |-> x.m, e |-> -3], 0)}} : TRUE
Log(x) == CHOOSE r \in {LogV(xv) : xv \in {x}} : TRUE

\* Math.log10
Log10(x) == Div(Log(x), LN10)

\* Math.acos on [0, 1]: sqrt(1 - x) (1.5707 - 0.2121 x + 0.0743 x^2 - 0.0187 x^3);
\* on [-1, 0) by acos(x) = pi - acos(-x); NaN outside [-1, 1].
AcosUnit(x) ==
  Mul(Sqrt(Sub(One, x)),
      Add(Fl(1571, -3), Mul(x, Add(Fl(-2121, -4),
          Mul(x, Add(Fl(7426, -5), Mul(x, Fl(-1873, -5))))))))
AcosV(x) ==
  IF x.c # "fin" THEN NaN
  ELSE IF Gt(Abs(x), One) THEN NaN
  ELSE IF x.m < 0 THEN Sub(PI, AcosUnit(Neg(x)))
  ELSE AcosUnit(x)
Acos(x) == CHOOSE r \in {AcosV(xv) : xv \in {x}} : TRUE

(***************************************************************************)
(* State.                                                                  *)
(*   quad      the values the fixed-grid Simpson sums of the trigonometric *)
(*             and Bessel integrands take for finite non-zero arguments:   *)
(*             [g1, g12, i1, grad].  The sums themselves (512 and 128x128  *)
(*             samples of sin, cos and the Bessel series) are not          *)
(*             recomputed; what the code fixes about them (not-a-number    *)
(*             and zero arguments, the prefactors, every test on the       *)
(*             result) is.  Fixed through a behaviour: the core is pure.   *)
(*   fwd       the frame of a running forward entry point                  *)
(*             (computeRectangularPatch, computeCircularPatch)             *)
(*   rev       the frame of a running reverse entry point                  *)
(*   nQuad     Simpson integrations performed so far                       *)
(*   nIter     root-finding steps (bracket expansions, bisections) so far  *)
(*   orig      the forward input a round trip started from                 *)
(*   tab       the calculator the application shows                        *)
(*   hook      the state of the hook of that calculator (useRectangular-   *)
(*             Patch or useCircularPatch): state, result, computedFrHz,    *)
(*             error                                                       *)
(*   coreCall  the core call made by the last calculate, or NULL           *)
(*   last      the handler that ran last: "mount", "updateState",          *)
(*             "calculate"                                                 *)
(*   lib       the frame of a running call of the numeric library          *)
(*             (besselJ, simpson), taken on its own                        *)
(***************************************************************************)
VARIABLES quad, fwd, rev, nQuad, nIter, orig, tab, hook, coreCall, last, lib

vars == <<quad, fwd, rev, nQuad, nIter, orig, tab, hook, coreCall, last, lib>>
coreVars == <<fwd, rev, nQuad, nIter, orig>>
hookVars == <<tab, hook, coreCall, last>>

\* null, as a result and as a number
NULL   == [tag |-> "null"]
\* no library call
NoLib  == [fn |-> "none", pc |-> "idle"]
NoNum  == [c |-> "null", m |-> 0, e |-> 0]

\* Speed of light in m/s
C == Fl(2998, 5)

\* Free-space wavelength (m)
wavelength(frHz) == Div(C, frHz)

\* Free-space wave number k0 = 2*pi/lambda0
k0(frHz) == Div(Mul(Mul(Two, PI), frHz), C)

\* the second term multiplied by the root instead of divided by it
effectiveEpsilonTimesRoot(epsilonR, W, h) ==
  Add(Div(Add(epsilonR, One), Two),
      Mul(Mul(Div(Sub(epsilonR, One), Two), One),
          Sqrt(Add(One, Div(Mul(Fl(1200, -2), h), W)))))
\* Effective relative permittivity
effectiveEpsilon(epsilonR, W, h) ==
  Add(Div(Add(epsilonR, One), Two),
      Div(Mul(Div(Sub(epsilonR, One), Two), One),
          Sqrt(Add(One, Div(Mul(Fl(1200, -2), h), W)))))

\* 0.824*h*(num/den), the fringing extension of the length
fringeNum(epsilonReff, W, hM) ==
  Mul(Add(epsilonReff, Fl(3000, -4)), Add(Div(W, hM), Fl(2640, -4)))
fringeDen(epsilonReff, W, hM) ==
  Mul(Sub(epsilonReff, Fl(2580, -4)), Add(Div(W, hM), Fl(8000, -4)))
\* the fringing extension with its sign reversed
deltaLNegated(epsilonReff, W, hM) ==
  Neg(Mul(Mul(Fl(8240, -4), hM),
          Div(fringeNum(epsilonReff, W, hM), fringeDen(epsilonReff, W, hM))))
deltaL(epsilonReff, W, hM) ==
  Mul(Mul(Fl(8240, -4), hM),
      Div(fringeNum(epsilonReff, W, hM), fringeDen(epsilonReff, W, hM)))

\* simpson(integrandG1, 0, PI, 512): every sample is [sin(arg)/cos]^2 sin^3 with
\* arg = (k0*W/2) cos, so not-a-number when k0*W is not finite, 0 when it is 0.
simpsonG1(k0W) ==
  IF ~IsFinite(k0W) THEN NaN
  ELSE IF k0W = Zero THEN Zero
  ELSE quad.g1

\* simpson(integrandG12, 0, PI, 512): the same samples times safeBesselJ0(k0*L*sin),
\* which is 0 for a not-finite argument.
simpsonG12(k0W, k0L) ==
  IF ~IsFinite(k0W) THEN NaN
  ELSE IF k0W = Zero THEN Zero
  ELSE IF ~IsFinite(k0L) THEN Zero
  ELSE quad.g12

\* simpson2D(integrandI1, 0, PI, 0, PI, 128, 128): the samples of G1 times
\* cos^2((k0*L_eff/2) sin sin).
simpsonI1(k0W, k0Leff) ==
  IF ~IsFinite(k0W) \/ ~IsFinite(k0Leff) THEN NaN
  ELSE IF k0W = Zero THEN Zero
  ELSE quad.i1

\* 1/(120 pi^2)
GScale == Div(One, Mul(Mul(Fl(1200, -1), PI), PI))

\* the input check without its test of hM
rectInvalidNoHeight(in) == Le(in.frHz, Zero) \/ Lt(in.epsilonR, One)

\* the input check with epsilonR = 1 rejected too
rectInvalidAir(in) ==
  Le(in.frHz, Zero) \/ Le(in.epsilonR, One) \/ Le(in.hM, Zero)

\* computeRectangularPatch: the input check
rectInvalid(in) ==
  Le(in.frHz, Zero) \/ Lt(in.epsilonR, One) \/ Le(in.hM, Zero)

\* computeRectangularPatch, steps 1 and 2: lambda0, k0, W, epsilonReff, L, L_eff
rectWidth(in) ==
  Mul(Div(C, Mul(Two, in.frHz)), Sqrt(Div(Two, Add(in.epsilonR, One))))
halfWave(frHz, epsilonReff) == Div(C, Mul(Mul(Two, frHz), Sqrt(epsilonReff)))
\* the lengths without the fringing extension: L = L_eff
rectLengthsNoFringe(in, W, epsilonReff) ==
  [lambda0 |-> wavelength(in.frHz), k0Val |-> k0(in.frHz), W |-> W,
   epsilonReff |-> epsilonReff,
   L |-> halfWave(in.frHz, epsilonReff),
   L_eff |-> halfWave(in.frHz, epsilonReff)]
rectLengths(in, W, epsilonReff) ==
  [lambda0 |-> wavelength(in.frHz), k0Val |-> k0(in.frHz), W |-> W,
   epsilonReff |-> epsilonReff,
   L |-> Sub(halfWave(in.frHz, epsilonReff), deltaL(epsilonReff, W, in.hM)),
   L_eff |-> halfWave(in.frHz, epsilonReff)]
rectOfWidth(in, W) == rectLengths(in, W, effectiveEpsilon(in.epsilonR, W, in.hM))
rectDims(in) == rectOfWidth(in, rectWidth(in))

\* computeRectangularPatch, steps 3 and 4: G1, G12
rectG(d) ==
  LET k0W == Mul(d.k0Val, d.W)
  IN  [G1  |-> Mul(GScale, simpsonG1(k0W)),
       G12 |-> Mul(GScale, simpsonG12(k0W, Mul(d.k0Val, d.L)))]

\* the test on the conductances without its test of the sum
rectGBadFiniteOnly(g) == ~IsFinite(g.G1) \/ ~IsFinite(g.G12)

\* the test that ends computeRectangularPatch after the conductances
rectGBad(g) ==
  ~IsFinite(g.G1) \/ ~IsFinite(g.G12) \/ Le(Add(g.G1, g.G12), Zero)

RinOf(g) == Div(One, Mul(Two, Add(g.G1, g.G12)))

\* the feed position with the lower bound of the range exclusive
feedInsetStrict(L, RinAtEdge) ==
  IF Gt(RinAtEdge, Fl(5000, -2)) /\ Lt(RinAtEdge, Fl(1000, 7))
  THEN Mul(Div(L, PI), Acos(Sqrt(Div(Fl(5000, -2), RinAtEdge))))
  ELSE NoNum

\* step 5: the 50 ohm feed position, or null
feedInset(L, RinAtEdge) ==
  IF Ge(RinAtEdge, Fl(5000, -2)) /\ Lt(RinAtEdge, Fl(1000, 7))
  THEN LET ratio == Div(Fl(5000, -2), RinAtEdge)
       IN  IF Le(ratio, One) /\ Ge(ratio, Zero)
           THEN Mul(Div(L, PI), Acos(Sqrt(ratio)))
           ELSE NoNum
  ELSE NoNum

\* step 6: the directivity integral I1
rectI1(d) == simpsonI1(Mul(d.k0Val, d.W), Mul(d.k0Val, d.L_eff))

\* the record computeRectangularPatch returns once the conductances passed
\* a test of I1 that nothing fails
rectBadI1Never(I1) == FALSE
\* the test of I1
rectBadI1(I1) == ~IsFinite(I1) \/ Le(I1, Zero)
\* D = (2 pi W / lambda0)^2 (pi / I1)
rectGain(x, I1) == Mul(Mul(x, x), Div(PI, I1))
rectDirectivityD(d, I1) == rectGain(Div(Mul(Mul(Two, PI), d.W), d.lambda0), I1)
rectRecord(d, g, Rin, D, DBi) ==
  [tag |-> "rect", W |-> d.W, L |-> d.L, L_eff |-> d.L_eff,
   epsilonReff |-> d.epsilonReff, G1 |-> g.G1, G12 |-> g.G12,
   RinAtEdge |-> Rin, y0_50ohm |-> feedInset(d.L, Rin),
   directivityD |-> D, directivityDBi |-> DBi, lambda0 |-> d.lambda0]
rectRecordD(d, g, D) == rectRecord(d, g, RinOf(g), D, Mul(Ten, Log10(D)))
rectResult(d, g, I1) ==
  IF rectBadI1(I1) THEN rectRecord(d, g, RinOf(g), NaN, NaN)
  ELSE rectRecordD(d, g, rectDirectivityD(d, I1))

\* computeRectangularPatch as one call
rectAfterG(d, g) == IF rectGBad(g) THEN NULL ELSE rectResult(d, g, rectI1(d))
rectAfterDims(d) == rectAfterG(d, rectG(d))
computeRectangularPatch(in) ==
  IF rectInvalid(in) THEN NULL ELSE rectAfterDims(rectDims(in))

\* computeRectangularPatchReverse: the input check
rectRevInvalid(in) ==
  Le(in.WM, Zero) \/ Le(in.LM, Zero) \/ Lt(in.epsilonR, One) \/ Le(in.hM, Zero)

\* the frequency without the fringing extension: c/(2 sqrt(epsilonReff) L)
rectRevFreqNoFringe(in, epsilonReff) ==
  Div(C, Mul(Mul(Two, Sqrt(epsilonReff)), in.LM))

\* computeRectangularPatchReverse: fr = c/(2 sqrt(epsilonReff) (L + deltaL))
rectRevFreqOf(in, epsilonReff) ==
  Div(C, Mul(Mul(Two, Sqrt(epsilonReff)),
             Add(in.LM, deltaL(epsilonReff, in.WM, in.hM))))
rectRevFreq(in) == rectRevFreqOf(in, effectiveEpsilon(in.epsilonR, in.WM, in.hM))

rectRevFreqBad(frHz) == ~IsFinite(frHz) \/ Le(frHz, Zero)

\* computeRectangularPatchReverse as one call
revReturn(frHz, forward) ==
  IF forward = NULL THEN NULL
  ELSE [tag |-> "rev", frHz |-> frHz, result |-> forward]
rectRevAt(in, frHz) ==
  IF rectRevFreqBad(frHz) THEN NULL
  ELSE revReturn(frHz, computeRectangularPatch(
                         [frHz |-> frHz, epsilonR |-> in.epsilonR, hM |-> in.hM]))
computeRectangularPatchReverse(in) ==
  IF rectRevInvalid(in) THEN NULL ELSE rectRevAt(in, rectRevFreq(in))

\* 8.791e7, the rounded chi_11*c/(2*pi)
FConst == Fl(8791, 4)

\* F = 8.791e7 / (fr * sqrt(epsilon_r))
F(frHz, epsilonR) == Div(FConst, Mul(frHz, Sqrt(epsilonR)))

\* Physical radius a (m)
physicalRadius(FVal, h, epsilonR) ==
  LET lnArg == Add(Div(Mul(PI, FVal), Mul(Two, h)), Fl(1773, -3))
      den   == Add(One, Mul(Div(Mul(Two, h), Mul(Mul(PI, epsilonR), FVal)),
                            Log(lnArg)))
  IN  Div(FVal, Sqrt(den))

\* Effective radius a_e (m)
effectiveRadius(a, h, epsilonR) ==
  LET lnArg  == Add(Div(Mul(PI, a), Mul(Two, h)), Fl(1773, -3))
      factor == Add(One, Mul(Div(Mul(Two, h), Mul(Mul(PI, a), epsilonR)),
                             Log(lnArg)))
  IN  Mul(a, Sqrt(factor))

\* simpson(integrand, 0, PI/2, 512) of computeCircularPatch: every sample is
\* [(J0-J2)^2 + cos^2 (J0+J2)^2] sin at x = k0*a_e*sin, with safeBesselJ0 and
\* safeBesselJ2 both 0 for a not-finite x; at x = 0 it is (1 + cos^2) sin, whose
\* integral is 4/3.
simpsonGrad(k0ae) ==
  IF ~IsFinite(k0ae) THEN Zero
  ELSE IF k0ae = Zero THEN Fl(1333, -3)
  ELSE quad.grad

\* computeCircularPatch: the input check
circInvalid(in) ==
  Le(in.frHz, Zero) \/ Lt(in.epsilonR, One) \/ Le(in.hM, Zero)

\* computeCircularPatch: lambda0, k0, F, a, a_e
circOfRadius(in, a) ==
  [lambda0 |-> wavelength(in.frHz), k0Val |-> k0(in.frHz), a |-> a,
   a_e |-> effectiveRadius(a, in.hM, in.epsilonR)]
circDims(in) ==
  circOfRadius(in, physicalRadius(F(in.frHz, in.epsilonR), in.hM, in.epsilonR))

\* G_rad = (k0*a_e)^2/480 * integral
circGrad(d) ==
  LET k0ae == Mul(d.k0Val, d.a_e)
  IN  Mul(Div(Mul(k0ae, k0ae), Fl(4800, -1)), simpsonGrad(k0ae))

\* the record computeCircularPatch returns
\* the test of G_rad
circBadG(G_rad) == ~IsFinite(G_rad) \/ Le(G_rad, Zero)
circGain(k0ae, scale, G_rad) == Div(Mul(k0ae, k0ae), Mul(scale, G_rad))
\* D0 with 480, the constant of G_rad, in place of 120
circDirectivityD480(d, G_rad) == circGain(Mul(d.k0Val, d.a_e), Fl(4800, -1), G_rad)
\* D0 = (k0 a_e)^2 / (120 G_rad)
circDirectivityD(d, G_rad) == circGain(Mul(d.k0Val, d.a_e), Fl(1200, -1), G_rad)
circRecord(d, D0, DBi) ==
  [tag |-> "circ", a |-> d.a, a_e |-> d.a_e,
   directivityD |-> D0, directivityDBi |-> DBi, lambda0 |-> d.lambda0]
circRecordD(d, D0) == circRecord(d, D0, Mul(Ten, Log10(D0)))
circResult(d, G_rad) ==
  IF circBadG(G_rad) THEN circRecord(d, NaN, NaN)
  ELSE circRecordD(d, circDirectivityD(d, G_rad))

\* computeCircularPatch as one call
circAfterDims(d) == circResult(d, circGrad(d))
computeCircularPatch(in) ==
  IF circInvalid(in) THEN NULL ELSE circAfterDims(circDims(in))

\* computeCircularPatchReverse: the input check
circRevInvalid(in) ==
  Le(in.aM, Zero) \/ Lt(in.epsilonR, One) \/ Le(in.hM, Zero)

\* the starting bounds of the bracket
FLow0  == Fl(1000, -8)
FHigh0 == Fl(1000, -4)

\* the condition of the first loop without its test of FLow
expandLowCondNoFloor(FLow, in) ==
  Ge(physicalRadius(FLow, in.hM, in.epsilonR), in.aM)

\* the conditions of the two expansion loops, and their bodies
expandLowCond(FLow, in) ==
  Ge(physicalRadius(FLow, in.hM, in.epsilonR), in.aM) /\ Gt(FLow, Fl(1000, -10))
expandHighCondNoCeiling(FHigh, in) ==
  Le(physicalRadius(FHigh, in.hM, in.epsilonR), in.aM)
expandHighCond(FHigh, in) ==
  Le(physicalRadius(FHigh, in.hM, in.epsilonR), in.aM) /\ Lt(FHigh, Half)
halveLow(FLow)    == Mul(FLow, Half)
doubleHigh(FHigh) == Mul(FHigh, Two)

\* the test that ends computeCircularPatchReverse after the expansion
bracketBad(FLow, FHigh, in) ==
  \/ Gt(physicalRadius(FLow, in.hM, in.epsilonR), in.aM)
  \/ Lt(physicalRadius(FHigh, in.hM, in.epsilonR), in.aM)

\* the lower end of the bracket in place of its midpoint
midpointLow(FLow, FHigh) == FLow

\* one bisection iteration
midpoint(FLow, FHigh) == Div(Add(FLow, FHigh), Two)
converged(aMid, aM) == Lt(Abs(Sub(aMid, aM)), Mul(Fl(1000, -15), aM))

\* the iteration limit of the bisection loop
MaxBisect == 80

\* the frequency without the factor sqrt(epsilonR)
freqOfFNoSqrt(FVal, epsilonR) == Div(FConst, FVal)

\* frHz = 8.791e7 / (F * sqrt(epsilonR))
freqOfF(FVal, epsilonR) == Div(FConst, Mul(FVal, Sqrt(epsilonR)))

RECURSIVE expandLow(_, _)
expandLow(FLow, in) ==
  IF expandLowCond(FLow, in) THEN expandLow(halveLow(FLow), in) ELSE FLow
RECURSIVE expandHigh(_, _)
expandHigh(FHigh, in) ==
  IF expandHighCond(FHigh, in) THEN expandHigh(doubleHigh(FHigh), in) ELSE FHigh

\* The bisection loop.  Its state is the bracket and, once the tolerance test
\* has passed (the break), the F it passed at.
bisectStart(FLow, FHigh) ==
  [FLow |-> FLow, FHigh |-> FHigh, done |-> FALSE, FMid |-> Zero]
bisectBody(s, aM, FMid, aMid) ==
  IF converged(aMid, aM) THEN [s EXCEPT !.done = TRUE, !.FMid = FMid]
  ELSE IF Lt(aMid, aM) THEN [s EXCEPT !.FLow = FMid]
  ELSE [s EXCEPT !.FHigh = FMid]
bisectAtMid(s, in, FMid) ==
  bisectBody(s, in.aM, FMid, physicalRadius(FMid, in.hM, in.epsilonR))
bisectStep(s, in) ==
  IF s.done THEN s ELSE bisectAtMid(s, in, midpoint(s.FLow, s.FHigh))
\* the iterations from the i-th on
RECURSIVE bisectLoop(_, _, _)
bisectLoop(s, i, in) ==
  IF i >= MaxBisect \/ s.done THEN s ELSE bisectLoop(bisectStep(s, in), i + 1, in)
\* the F the frequency is taken from
bisectF(s) == IF s.done THEN s.FMid ELSE midpoint(s.FLow, s.FHigh)
bisect(FLow, FHigh, in) == bisectF(bisectLoop(bisectStart(FLow, FHigh), 0, in))

\* the tail of computeCircularPatchReverse: the forward model at the frequency
circRevAt(in, frHz) ==
  revReturn(frHz, computeCircularPatch(
                    [frHz |-> frHz, epsilonR |-> in.epsilonR, hM |-> in.hM]))
circRevBracketed(in, FLow, FHigh) ==
  IF bracketBad(FLow, FHigh, in) THEN NULL
  ELSE circRevAt(in, freqOfF(bisect(FLow, FHigh, in), in.epsilonR))

\* computeCircularPatchReverse as one call
computeCircularPatchReverse(in) ==
  IF circRevInvalid(in) THEN NULL
  ELSE circRevBracketed(in, expandLow(FLow0, in), expandHigh(FHigh0, in))

(***************************************************************************)
(* The core, step by step.  A frame is [fn, in, pc, loc, ret]; a reverse   *)
(* frame also holds the bracket, the iteration count and the frequency.    *)
(***************************************************************************)
PENDING == [tag |-> "pending"]
NoFrame == [fn |-> "none", in |-> NULL, pc |-> "idle", loc |-> NULL, ret |-> PENDING]
NoRev   == [fn |-> "none", in |-> NULL, pc |-> "idle", FLow |-> Zero,
            FHigh |-> Zero, i |-> 0, frHz |-> NoNum, ret |-> PENDING]
Frame(fn, in)    == [NoFrame EXCEPT !.fn = fn, !.in = in, !.pc = "entry"]
RevFrame(fn, in) == [NoRev EXCEPT !.fn = fn, !.in = in, !.pc = "entry"]

Return(frame, value) == [frame EXCEPT !.pc = "done", !.ret = value]

\* computeRectangularPatch
RectValidate ==
  /\ fwd.fn = "rect" /\ fwd.pc = "entry"
  /\ fwd' = IF rectInvalid(fwd.in) THEN Return(fwd, NULL)
            ELSE [fwd EXCEPT !.pc = "dims"]
  /\ UNCHANGED <<lib, quad, rev, nQuad, nIter, orig, hookVars>>

RectDims ==
  /\ fwd.fn = "rect" /\ fwd.pc = "dims"
  /\ fwd' = [fwd EXCEPT !.pc = "conductance", !.loc = [d |-> rectDims(fwd.in)]]
  /\ UNCHANGED <<lib, quad, rev, nQuad, nIter, orig, hookVars>>

RectConductance ==
  /\ fwd.fn = "rect" /\ fwd.pc = "conductance"
  /\ LET g == rectG(fwd.loc.d)
     IN  fwd' = IF rectGBad(g)
                THEN Return([fwd EXCEPT !.loc = [d |-> fwd.loc.d, g |-> g]], NULL)
                ELSE [fwd EXCEPT !.pc = "directivity",
                                 !.loc = [d |-> fwd.loc.d, g |-> g]]
  /\ nQuad' = nQuad + 2
  /\ UNCHANGED <<lib, quad, rev, nIter, orig, hookVars>>

RectDirectivity ==
  /\ fwd.fn = "rect" /\ fwd.pc = "directivity"
  /\ \E I1 \in {rectI1(fwd.loc.d)} :
       fwd' = Return([fwd EXCEPT !.loc = [d |-> fwd.loc.d, g |-> fwd.loc.g, I1 |-> I1]],
                     rectResult(fwd.loc.d, fwd.loc.g, I1))
  /\ nQuad' = nQuad + 1
  /\ UNCHANGED <<lib, quad, rev, nIter, orig, hookVars>>

\* computeCircularPatch
CircValidate ==
  /\ fwd.fn = "circ" /\ fwd.pc = "entry"
  /\ fwd' = IF circInvalid(fwd.in) THEN Return(fwd, NULL)
            ELSE [fwd EXCEPT !.pc = "radius"]
  /\ UNCHANGED <<lib, quad, rev, nQuad, nIter, orig, hookVars>>

CircRadius ==
  /\ fwd.fn = "circ" /\ fwd.pc = "radius"
  /\ fwd' = [fwd EXCEPT !.pc = "directivity", !.loc = [d |-> circDims(fwd.in)]]
  /\ UNCHANGED <<lib, quad, rev, nQuad, nIter, orig, hookVars>>

CircDirectivity ==
  /\ fwd.fn = "circ" /\ fwd.pc = "directivity"
  /\ \E G_rad \in {circGrad(fwd.loc.d)} :
       fwd' = Return([fwd EXCEPT !.loc = [d |-> fwd.loc.d, G_rad |-> G_rad]],
                     circResult(fwd.loc.d, G_rad))
  /\ nQuad' = nQuad + 1
  /\ UNCHANGED <<lib, quad, rev, nIter, orig, hookVars>>

\* computeRectangularPatchReverse
RectRevValidate ==
  /\ rev.fn = "rectRev" /\ rev.pc = "entry"
  /\ rev' = IF rectRevInvalid(rev.in) THEN Return(rev, NULL)
            ELSE [rev EXCEPT !.pc = "freq"]
  /\ UNCHANGED <<lib, quad, fwd, nQuad, nIter, orig, hookVars>>

RectRevFreq ==
  /\ rev.fn = "rectRev" /\ rev.pc = "freq"
  /\ LET frHz == rectRevFreq(rev.in)
     IN  rev' = IF rectRevFreqBad(frHz) THEN Return(rev, NULL)
                ELSE [rev EXCEPT !.pc = "call", !.frHz = frHz]
  /\ UNCHANGED <<lib, quad, fwd, nQuad, nIter, orig, hookVars>>

\* computeCircularPatchReverse
CircRevValidate ==
  /\ rev.fn = "circRev" /\ rev.pc = "entry"
  /\ rev' = IF circRevInvalid(rev.in) THEN Return(rev, NULL)
            ELSE [rev EXCEPT !.pc = "expandLow", !.FLow = FLow0, !.FHigh = FHigh0]
  /\ UNCHANGED <<lib, quad, fwd, nQuad, nIter, orig, hookVars>>

CircRevExpandLow ==
  /\ rev.fn = "circRev" /\ rev.pc = "expandLow"
  /\ IF expandLowCond(rev.FLow, rev.in)
     THEN rev' = [rev EXCEPT !.FLow = halveLow(rev.FLow)] /\ nIter' = nIter + 1
     ELSE rev' = [rev EXCEPT !.pc = "expandHigh"] /\ nIter' = nIter
  /\ UNCHANGED <<lib, quad, fwd, nQuad, orig, hookVars>>

CircRevExpandHigh ==
  /\ rev.fn = "circRev" /\ rev.pc = "expandHigh"
  /\ IF expandHighCond(rev.FHigh, rev.in)
     THEN rev' = [rev EXCEPT !.FHigh = doubleHigh(rev.FHigh)] /\ nIter' = nIter + 1
     ELSE rev' = [rev EXCEPT !.pc = "bracket"] /\ nIter' = nIter
  /\ UNCHANGED <<lib, quad, fwd, nQuad, orig, hookVars>>

CircRevBracket ==
  /\ rev.fn = "circRev" /\ rev.pc = "bracket"
  /\ rev' = IF bracketBad(rev.FLow, rev.FHigh, rev.in) THEN Return(rev, NULL)
            ELSE [rev EXCEPT !.pc = "bisect", !.i = 0]
  /\ UNCHANGED <<lib, quad, fwd, nQuad, nIter, orig, hookVars>>

\* the bisection step with the two bounds exchanged
revBisectStepSwapped(r, FMid, aMid) ==
  IF converged(aMid, r.in.aM)
  THEN [r EXCEPT !.pc = "call", !.frHz = freqOfF(FMid, r.in.epsilonR)]
  ELSE IF Lt(aMid, r.in.aM) THEN [r EXCEPT !.FHigh = FMid, !.i = r.i + 1]
  ELSE [r EXCEPT !.FLow = FMid, !.i = r.i + 1]
revBisectStep(r, FMid, aMid) ==
  IF converged(aMid, r.in.aM)
  THEN [r EXCEPT !.pc = "call", !.frHz = freqOfF(FMid, r.in.epsilonR)]
  ELSE IF Lt(aMid, r.in.aM) THEN [r EXCEPT !.FLow = FMid, !.i = r.i + 1]
  ELSE [r EXCEPT !.FHigh = FMid, !.i = r.i + 1]
revBisectMid(r, FMid) ==
  revBisectStep(r, FMid, physicalRadius(FMid, r.in.hM, r.in.epsilonR))
CircRevBisect ==
  /\ rev.fn = "circRev" /\ rev.pc = "bisect"
  /\ IF rev.i >= MaxBisect
     THEN /\ rev' = [rev EXCEPT !.pc = "call",
                       !.frHz = freqOfF(midpoint(rev.FLow, rev.FHigh), rev.in.epsilonR)]
          /\ nIter' = nIter
     ELSE /\ rev' = revBisectMid(rev, midpoint(rev.FLow, rev.FHigh))
          /\ nIter' = nIter + 1
  /\ UNCHANGED <<lib, quad, fwd, nQuad, orig, hookVars>>

\* both reverse entry points: the forward model at the frequency found
RevCallForward ==
  /\ rev.pc = "call"
  /\ fwd' = Frame(IF rev.fn = "rectRev" THEN "rect" ELSE "circ",
                  [frHz |-> rev.frHz, epsilonR |-> rev.in.epsilonR,
                   hM |-> rev.in.hM])
  /\ rev' = [rev EXCEPT !.pc = "wait"]
  /\ UNCHANGED <<lib, quad, nQuad, nIter, orig, hookVars>>

RevReturn ==
  /\ rev.pc = "wait" /\ fwd.pc = "done"
  /\ rev' = Return(rev, revReturn(rev.frHz, fwd.ret))
  /\ UNCHANGED <<lib, quad, fwd, nQuad, nIter, orig, hookVars>>

\* A round trip: the reverse model applied to the W and L of a forward result.
RoundTripRect ==
  /\ fwd.fn = "rect" /\ fwd.pc = "done" /\ fwd.ret # NULL
  /\ rev.fn = "none" /\ orig = NULL
  /\ orig' = [in |-> fwd.in, result |-> fwd.ret]
  /\ rev' = RevFrame("rectRev", [WM |-> fwd.ret.W, LM |-> fwd.ret.L,
                                 epsilonR |-> fwd.in.epsilonR, hM |-> fwd.in.hM])
  /\ nQuad' = 0 /\ nIter' = 0
  /\ UNCHANGED <<lib, quad, fwd, hookVars>>

\* The same for the circular patch: the reverse model applied to the radius a
\* of a forward result.
RoundTripCirc ==
  /\ fwd.fn = "circ" /\ fwd.pc = "done" /\ fwd.ret # NULL
  /\ rev.fn = "none" /\ orig = NULL
  /\ orig' = [in |-> fwd.in, result |-> fwd.ret]
  /\ rev' = RevFrame("circRev", [aM |-> fwd.ret.a,
                                 epsilonR |-> fwd.in.epsilonR, hM |-> fwd.in.hM])
  /\ nQuad' = 0 /\ nIter' = 0
  /\ UNCHANGED <<lib, quad, fwd, hookVars>>

(***************************************************************************)
(* The inputs the core is applied to: any number is a legal field of an    *)
(* input record, so each field ranges over not-a-number, values that fail  *)
(* the check, the corners and an interior point of the design range        *)
(* (fr in [1e9, 1e10], epsilonR in [2, 10], h in [0.2e-3, 3e-3]) and       *)
(* values at the edge of the number format.                                *)
(***************************************************************************)
FreqValues ==
  {NaN, Zero, Num(-1, 9), Num(1, -300), Num(1, 6), Num(1, 9), Num(24, 8), Num(1, 10)}
EpsValues  == {NaN, Num(5, -1), One, Two, Num(44, -1), Ten}
HValues    == {NaN, Zero, Num(-1, -3), Num(2, -4), Num(16, -4), Num(3, -3)}
ForwardInputs ==
  {[frHz |-> f, epsilonR |-> er, hM |-> h] : f \in FreqValues, er \in EpsValues, h \in HValues}

Tiny == Num(1, -320)
RectRevInputs ==
  {[WM |-> w, LM |-> l, epsilonR |-> er, hM |-> h] :
     w \in {NaN, Zero, Tiny, Num(3801, -5)}, l \in {NaN, Zero, Tiny, Num(2942, -5)},
     er \in {NaN, Num(5, -1), Num(44, -1)}, h \in {NaN, Zero, Tiny, Num(16, -4)}}

CircRevInputs ==
  {[aM |-> a, epsilonR |-> er, hM |-> h] :
     a \in {NaN, Zero, Num(1, -160), Num(1, -9), Num(14, -3), Num(1713, -5),
            Num(7992, -4), Num(5, 0)},
     er \in {NaN, Num(5, -1), Num(44, -1), PosInf},
     h \in {NaN, Zero, Num(16, -4), Num(5, 307)}}

\* What the Simpson sums come to.  typical: fr = 2.4 GHz, epsilonR = 4.4,
\* h = 1.6 mm.  The other values are wider than the sums themselves range
\* (k0*W stays below pi, which keeps RinAtEdge of a finite record above 50):
\* they take the code after the integrals through each of its branches, a
\* conductance sum <= 0, RinAtEdge below 50, at 50 and above 1e10, and I1 = 0.
TypicalQuad == [g1 |-> Num(1148, -3), g12 |-> Num(694, -3), i1 |-> Num(2829, -3),
                grad |-> Num(1017, -3)]
RectQuads ==
  {TypicalQuad,
   [TypicalQuad EXCEPT !.g12 = Num(20, 0)],
   [TypicalQuad EXCEPT !.g12 = Num(1070, -2)],
   [TypicalQuad EXCEPT !.g1 = Num(1, -8), !.g12 = Num(1, -8), !.i1 = Num(1, -8)],
   [TypicalQuad EXCEPT !.g12 = Num(-5, 0)],
   [TypicalQuad EXCEPT !.g12 = Num(-1148, -3)],
   [TypicalQuad EXCEPT !.i1 = Zero]}
CircQuads == {TypicalQuad, [TypicalQuad EXCEPT !.grad = Num(5212, -4)]}

(***************************************************************************)
(* The hooks.  hook.state holds the fields calculate reads (the two feed   *)
(* offsets are only displayed).                                            *)
(***************************************************************************)
NoError == "null"

\* lib/units
LENGTH_TO_M(unit) ==
  CASE unit = "mm" -> Fl(1000, -6) [] unit = "cm" -> Fl(1000, -5) [] unit = "m" -> One
    [] unit = "mil" -> Fl(2540, -8) [] unit = "inch" -> Fl(2540, -5)
FREQ_TO_HZ(unit) ==
  CASE unit = "GHz" -> Fl(1000, 6) [] unit = "MHz" -> Fl(1000, 3)
    [] unit = "kHz" -> Fl(1000, 0) [] unit = "Hz" -> One
lengthToSI(value, unit)    == Mul(value, LENGTH_TO_M(unit))
frequencyToSI(value, unit) == Mul(value, FREQ_TO_HZ(unit))

rectDefaultState ==
  [mode |-> "frequency", frequency |-> Num(24, -1), frequencyUnit |-> "GHz",
   width |-> Num(30, 0), length |-> Num(24, 0), epsilonR |-> Num(44, -1),
   height |-> Num(16, -1), heightUnit |-> "mm"]
circDefaultState ==
  [mode |-> "frequency", frequency |-> Num(24, -1), frequencyUnit |-> "GHz",
   radius |-> Num(14, 0), epsilonR |-> Num(44, -1),
   height |-> Num(16, -1), heightUnit |-> "mm"]

\* the hook of a calculator as it mounts
Mounted(t) ==
  [state |-> IF t = "rectangular" THEN rectDefaultState ELSE circDefaultState,
   result |-> NULL, computedFrHz |-> NoNum, error |-> NoError]

\* setError(msg) alone
failWithResultKept(h, msg) == [h EXCEPT !.error = msg]
\* setError(msg); setResult(null); return  (after setError(null), setComputedFrHz(null))
failWith(h, msg) == [h EXCEPT !.error = msg, !.result = NULL, !.computedFrHz = NoNum]

\* calculate() of either hook yields <<the hook after it, the core call it made>>.
called(fn, in, out) == [fn |-> fn, in |-> in, out |-> out]
published(h, result, frHz) ==
  [h EXCEPT !.error = NoError, !.result = result, !.computedFrHz = frHz]

\* useRectangularPatch.calculate
rectForwardOut(h, in, out) ==
  IF out = NULL
  THEN <<failWith(h, "Calculation failed (check inputs or numerical limits)"),
         called("computeRectangularPatch", in, out)>>
  ELSE IF ~IsFinite(out.G1) \/ ~IsFinite(out.G12)
  THEN <<failWith(h, "Integrals did not converge"),
         called("computeRectangularPatch", in, out)>>
  ELSE <<published(h, out, NoNum), called("computeRectangularPatch", in, out)>>
\* the frequency mode without its test of frHz
rectFrequencyModeUnchecked(h, in) ==
  rectForwardOut(h, in, computeRectangularPatch(in))
rectFrequencyMode(h, in) ==
  IF Le(in.frHz, Zero) THEN <<failWith(h, "Invalid input: f_r > 0"), NULL>>
  ELSE rectForwardOut(h, in, computeRectangularPatch(in))
rectReverseOut(h, in, out) ==
  IF out = NULL
  THEN <<failWith(h, "Calculation failed (check dimensions or numerical limits)"),
         called("computeRectangularPatchReverse", in, out)>>
  ELSE <<published(h, out.result, out.frHz),
         called("computeRectangularPatchReverse", in, out)>>
rectDimensionsMode(h, in) ==
  IF Le(in.WM, Zero) \/ Le(in.LM, Zero)
  THEN <<failWith(h, "Invalid input: W > 0, L > 0"), NULL>>
  ELSE rectReverseOut(h, in, computeRectangularPatchReverse(in))
rectChecked(h, s, hM) ==
  IF Lt(s.epsilonR, One) \/ Le(hM, Zero)
  THEN <<failWith(h, "Invalid input: er >= 1, h > 0"), NULL>>
  ELSE IF s.mode = "frequency"
  THEN rectFrequencyMode(h, [frHz |-> frequencyToSI(s.frequency, s.frequencyUnit),
                             epsilonR |-> s.epsilonR, hM |-> hM])
  ELSE rectDimensionsMode(h, [WM |-> lengthToSI(s.width, s.heightUnit),
                              LM |-> lengthToSI(s.length, s.heightUnit),
                              epsilonR |-> s.epsilonR, hM |-> hM])
rectCalculate(h) ==
  rectChecked(h, h.state, lengthToSI(h.state.height, h.state.heightUnit))

\* useCircularPatch.calculate
circForwardOut(h, in, out) ==
  IF out = NULL
  THEN <<failWith(h, "Calculation failed (check inputs or numerical limits)"),
         called("computeCircularPatch", in, out)>>
  ELSE IF ~IsFinite(out.directivityD)
  THEN <<failWith(h, "Directivity integral did not converge"),
         called("computeCircularPatch", in, out)>>
  ELSE <<published(h, out, NoNum), called("computeCircularPatch", in, out)>>
circFrequencyMode(h, in) ==
  IF Le(in.frHz, Zero) THEN <<failWith(h, "Invalid input: f_r > 0"), NULL>>
  ELSE circForwardOut(h, in, computeCircularPatch(in))
circReverseOut(h, in, out) ==
  IF out = NULL
  THEN <<failWith(h, "Calculation failed (check radius or numerical limits)"),
         called("computeCircularPatchReverse", in, out)>>
  ELSE <<published(h, out.result, out.frHz),
         called("computeCircularPatchReverse", in, out)>>
circDimensionsMode(h, in) ==
  IF Le(in.aM, Zero) THEN <<failWith(h, "Invalid input: radius a > 0"), NULL>>
  ELSE circReverseOut(h, in, computeCircularPatchReverse(in))
circChecked(h, s, hM) ==
  IF Lt(s.epsilonR, One) \/ Le(hM, Zero)
  THEN <<failWith(h, "Invalid input: er >= 1, h > 0"), NULL>>
  ELSE IF s.mode = "frequency"
  THEN circFrequencyMode(h, [frHz |-> frequencyToSI(s.frequency, s.frequencyUnit),
                             epsilonR |-> s.epsilonR, hM |-> hM])
  ELSE circDimensionsMode(h, [aM |-> lengthToSI(s.radius, s.heightUnit),
                              epsilonR |-> s.epsilonR, hM |-> hM])
circCalculate(h) ==
  circChecked(h, h.state, lengthToSI(h.state.height, h.state.heightUnit))

\* RectangularCalculator, CircularCalculator: whether the rows rendered
\* include the 'Resonant frequency' row
resonantFrequencyRow(h) == h.result # NULL /\ h.computedFrHz # NoNum

\* What the number inputs and selects of the calculators deliver: finite
\* numbers (an empty or malformed field reads as 0) and the listed units.
Modes           == {"frequency", "dimensions"}
HookFrequencies == {Zero, Num(24, -1)}
HookFreqUnits   == {"GHz", "MHz"}
HookLengthUnits == {"mm", "m"}
HookWidths      == {Zero, Num(30, 0)}
HookLengths     == {Zero, Num(24, 0)}
HookRadii       == {Zero, Num(14, 0), Num(1, -160)}
HookEps         == {Num(5, -1), Num(44, -1)}
HookHeights     == {Zero, Num(16, -1), Num(5, 307)}

ValuesOf(key) ==
  CASE key = "mode" -> Modes
    [] key = "frequency" -> HookFrequencies
    [] key = "frequencyUnit" -> HookFreqUnits
    [] key = "width" -> HookWidths
    [] key = "length" -> HookLengths
    [] key = "radius" -> HookRadii
    [] key = "epsilonR" -> HookEps
    [] key = "height" -> HookHeights
    [] key = "heightUnit" -> HookLengthUnits

\* updateState(key, value)
UpdateState ==
  /\ \E key \in DOMAIN hook.state : \E value \in ValuesOf(key) :
       hook' = [hook EXCEPT !.state[key] = value, !.error = NoError]
  /\ last' = "updateState"
  /\ UNCHANGED <<lib, quad, coreVars, tab, coreCall>>

\* calculate()
Calculate ==
  /\ \E r \in {IF tab = "rectangular" THEN rectCalculate(hook) ELSE circCalculate(hook)} :
       hook' = r[1] /\ coreCall' = r[2]
  /\ last' = "calculate"
  /\ UNCHANGED <<lib, quad, coreVars, tab>>

\* setTab(t): the other calculator mounts, with the state of a fresh hook
SetTab ==
  /\ \E t \in {"rectangular", "circular"} :
       /\ t # tab
       /\ tab' = t
       /\ hook' = Mounted(t)
  /\ coreCall' = NULL
  /\ last' = "mount"
  /\ UNCHANGED <<lib, quad, coreVars>>

(***************************************************************************)
(* Specifications.  Spec: the application, its hooks driven by the         *)
(* calculators.  CoreSpec: each core entry point applied, step by step, to *)
(* an input record.                                                        *)
(***************************************************************************)
CoreIdle ==
  fwd = NoFrame /\ rev = NoRev /\ nQuad = 0 /\ nIter = 0 /\ orig = NULL
HookIdle ==
  tab = "rectangular" /\ hook = Mounted("rectangular") /\ coreCall = NULL
  /\ last = "mount"

Init ==
  /\ quad = TypicalQuad
  /\ HookIdle
  /\ CoreIdle
  /\ lib = NoLib

Next == UpdateState \/ Calculate \/ SetTab

Spec == Init /\ [][Next]_vars

CoreInit ==
  /\ HookIdle
  /\ lib = NoLib
  /\ nQuad = 0 /\ nIter = 0 /\ orig = NULL
  /\ \/ /\ quad \in RectQuads
        /\ \E in \in ForwardInputs : fwd = Frame("rect", in)
        /\ rev = NoRev
     \/ /\ quad \in CircQuads
        /\ \E in \in ForwardInputs : fwd = Frame("circ", in)
        /\ rev = NoRev
     \/ /\ quad \in RectQuads
        /\ \E in \in RectRevInputs : rev = RevFrame("rectRev", in)
        /\ fwd = NoFrame
     \/ /\ quad \in CircQuads
        /\ \E in \in CircRevInputs : rev = RevFrame("circRev", in)
        /\ fwd = NoFrame

CoreNext ==
  \/ RectValidate \/ RectDims \/ RectConductance \/ RectDirectivity
  \/ CircValidate \/ CircRadius \/ CircDirectivity
  \/ RectRevValidate \/ RectRevFreq
  \/ CircRevValidate \/ CircRevExpandLow \/ CircRevExpandHigh
  \/ CircRevBracket \/ CircRevBisect
  \/ RevCallForward \/ RevReturn
  \/ RoundTripRect \/ RoundTripCirc

CoreSpec == CoreInit /\ [][CoreNext]_vars

\* computeCircularPatchReverse alone, every call run to its end: a step that
\* can be taken is taken.
CircRevInit ==
  /\ HookIdle
  /\ lib = NoLib
  /\ nQuad = 0 /\ nIter = 0 /\ orig = NULL
  /\ quad = TypicalQuad
  /\ \E in \in CircRevInputs : /\ in.epsilonR \in {NaN, Num(44, -1)}
                                /\ rev = RevFrame("circRev", in)
  /\ fwd = NoFrame
CircRevNext ==
  \/ CircRevValidate \/ CircRevExpandLow \/ CircRevExpandHigh
  \/ CircRevBracket \/ CircRevBisect
  \/ RevCallForward \/ RevReturn
  \/ CircValidate \/ CircRadius \/ CircDirectivity
CircRevLiveSpec == CircRevInit /\ [][CircRevNext]_vars /\ WF_vars(CircRevNext)

\* The entry points as one call, for the input of the top frame.
WholeCall(fn, in) ==
  CASE fn = "rect" -> computeRectangularPatch(in)
    [] fn = "circ" -> computeCircularPatch(in)
    [] fn = "rectRev" -> computeRectangularPatchReverse(in)
    [] fn = "circRev" -> computeCircularPatchReverse(in)

\* The steps and the single call compute the same value.
StepsAgree ==
  /\ (fwd.pc = "done") => fwd.ret = WholeCall(fwd.fn, fwd.in)
  /\ (rev.pc = "done") => rev.ret = WholeCall(rev.fn, rev.in)

(***************************************************************************)
(* Properties of the core, over CoreSpec.                                  *)
(***************************************************************************)

\* The input records an entry point is documented to reject.
C1_Rejects(fn, in) ==
  \/ Lt(in.epsilonR, One)
  \/ Le(in.hM, Zero)
  \/ CASE fn \in {"rect", "circ"} -> Le(in.frHz, Zero)
       [] fn = "rectRev" -> Le(in.WM, Zero) \/ Le(in.LM, Zero)
       [] fn = "circRev" -> Le(in.aM, Zero)
\* A call that has done nothing but its input check, and returned null if it
\* has returned.
C1_OnlyChecked(frame) ==
  /\ frame.pc \in {"entry", "done"}
  /\ frame.pc = "done" => frame.ret = NULL

\* C1: each of computeRectangularPatch, computeCircularPatch,
\* computeRectangularPatchReverse and computeCircularPatchReverse, called with
\* a primary input (frHz; WM or LM; aM) <= 0, or epsilonR < 1, or hM <= 0,
\* returns null, and no Simpson integration and no root-finding step has run
\* when it does.
C1_NullBeforeNumerics ==
  /\ (fwd.fn # "none" /\ C1_Rejects(fwd.fn, fwd.in)) => C1_OnlyChecked(fwd)
  /\ (rev.fn = "none" /\ fwd.fn # "none" /\ C1_Rejects(fwd.fn, fwd.in)) =>
       nQuad = 0 /\ nIter = 0
  /\ (rev.fn # "none" /\ C1_Rejects(rev.fn, rev.in)) =>
       C1_OnlyChecked(rev) /\ nQuad = 0 /\ nIter = 0

\* computeRectangularPatch has returned null for hM <= 0 and an otherwise
\* acceptable record.
C1_Witness ==
  /\ rev.fn = "none" /\ fwd.fn = "rect" /\ fwd.pc = "done"
  /\ Gt(fwd.in.frHz, Zero) /\ Ge(fwd.in.epsilonR, One) /\ Le(fwd.in.hM, Zero)
  /\ fwd.ret = NULL /\ nQuad = 0

\* C2: computeCircularPatch and computeCircularPatchReverse return a non-null
\* result only if epsilonR >= 1 and hM > 0 and frHz > 0 (respectively aM > 0)
\* hold of the input record, not-a-number fields included.
C2_NonNullOnlyIfValid ==
  /\ (fwd.fn = "circ" /\ fwd.pc = "done" /\ fwd.ret # NULL) =>
       Ge(fwd.in.epsilonR, One) /\ Gt(fwd.in.hM, Zero) /\ Gt(fwd.in.frHz, Zero)
  /\ (rev.fn = "circRev" /\ rev.pc = "done" /\ rev.ret # NULL) =>
       Ge(rev.in.epsilonR, One) /\ Gt(rev.in.hM, Zero) /\ Gt(rev.in.aM, Zero)

\* C3: computeRectangularPatch returns null whenever G1 or G12 is not finite
\* or G1 + G12 <= 0; a non-null result has RinAtEdge = 1/(2 (G1 + G12)) > 0.
C3_NullOrPositiveRin ==
  (fwd.fn = "rect" /\ fwd.pc = "done") =>
    /\ ( /\ "g" \in DOMAIN fwd.loc
         /\ \/ ~IsFinite(fwd.loc.g.G1)
            \/ ~IsFinite(fwd.loc.g.G12)
            \/ Le(Add(fwd.loc.g.G1, fwd.loc.g.G12), Zero) ) => fwd.ret = NULL
    /\ fwd.ret # NULL =>
         /\ fwd.ret.G1 = fwd.loc.g.G1 /\ fwd.ret.G12 = fwd.loc.g.G12
         /\ fwd.ret.RinAtEdge = Div(One, Mul(Two, Add(fwd.ret.G1, fwd.ret.G12)))
         /\ Gt(fwd.ret.RinAtEdge, Zero)

\* computeRectangularPatch has returned null after a G1 that is not finite.
C3_Witness ==
  /\ fwd.fn = "rect" /\ fwd.pc = "done" /\ "g" \in DOMAIN fwd.loc
  /\ ~IsFinite(fwd.loc.g.G1) /\ fwd.ret = NULL

\* C4: when the conductances pass and I1 is not finite or <= 0,
\* computeRectangularPatch returns a record, not null: its W, L, L_eff,
\* epsilonReff, G1, G12, RinAtEdge, y0_50ohm and lambda0 are the values
\* computed before the I1 integration, as on the normal path, and its
\* directivityD and directivityDBi are not-a-number.
C4_RecordWithNaNDirectivity ==
  (fwd.fn = "rect" /\ fwd.pc = "done" /\ "I1" \in DOMAIN fwd.loc) =>
    /\ fwd.ret # NULL
    /\ fwd.ret.W = fwd.loc.d.W /\ fwd.ret.L = fwd.loc.d.L
    /\ fwd.ret.L_eff = fwd.loc.d.L_eff
    /\ fwd.ret.epsilonReff = fwd.loc.d.epsilonReff
    /\ fwd.ret.lambda0 = fwd.loc.d.lambda0
    /\ fwd.ret.G1 = fwd.loc.g.G1 /\ fwd.ret.G12 = fwd.loc.g.G12
    /\ fwd.ret.RinAtEdge = Div(One, Mul(Two, Add(fwd.loc.g.G1, fwd.loc.g.G12)))
    /\ fwd.ret.y0_50ohm = feedInset(fwd.loc.d.L, fwd.ret.RinAtEdge)
    /\ (~IsFinite(fwd.loc.I1) \/ Le(fwd.loc.I1, Zero)) =>
         IsNaN(fwd.ret.directivityD) /\ IsNaN(fwd.ret.directivityDBi)

\* computeRectangularPatch has returned after an I1 that is not finite or <= 0.
C4_Witness ==
  /\ fwd.fn = "rect" /\ fwd.pc = "done" /\ "I1" \in DOMAIN fwd.loc
  /\ (~IsFinite(fwd.loc.I1) \/ Le(fwd.loc.I1, Zero))
  /\ fwd.ret # NULL /\ IsNaN(fwd.ret.directivityD)

\* C5: computeCircularPatch returns null only when its input check fails; when
\* G_rad is not finite or <= 0 it returns a record with a, a_e and lambda0 and
\* not-a-number directivityD and directivityDBi; otherwise directivityD is
\* (k0 a_e)^2 / (120 G_rad).
C5_CircularResult ==
  (fwd.fn = "circ" /\ fwd.pc = "done") =>
    /\ fwd.ret = NULL =>
         Le(fwd.in.frHz, Zero) \/ Lt(fwd.in.epsilonR, One) \/ Le(fwd.in.hM, Zero)
    /\ fwd.ret # NULL =>
         /\ fwd.ret.a = fwd.loc.d.a /\ fwd.ret.a_e = fwd.loc.d.a_e
         /\ fwd.ret.lambda0 = fwd.loc.d.lambda0
         /\ IF ~IsFinite(fwd.loc.G_rad) \/ Le(fwd.loc.G_rad, Zero)
            THEN IsNaN(fwd.ret.directivityD) /\ IsNaN(fwd.ret.directivityDBi)
            ELSE fwd.ret.directivityD =
                   Div(Mul(Mul(k0(fwd.in.frHz), fwd.ret.a_e),
                           Mul(k0(fwd.in.frHz), fwd.ret.a_e)),
                       Mul(Fl(1200, -1), fwd.loc.G_rad))

\* computeCircularPatch has returned a record after a G_rad that is not finite
\* or <= 0.
C5_Witness ==
  /\ fwd.fn = "circ" /\ fwd.pc = "done" /\ fwd.ret # NULL
  /\ (~IsFinite(fwd.loc.G_rad) \/ Le(fwd.loc.G_rad, Zero))
  /\ IsNaN(fwd.ret.directivityD)

\* C8: in a result of computeRectangularPatch, y0_50ohm is not null exactly
\* when 50 <= RinAtEdge < 1e10, and is then (L/pi) acos(sqrt(50/RinAtEdge)):
\* the test of the ratio 50/RinAtEdge never makes it null within that range.
\* At RinAtEdge = 50 the inset is computed, with value 0.
C8_FeedInset ==
  (fwd.fn = "rect" /\ fwd.pc = "done" /\ fwd.ret # NULL) =>
    /\ (fwd.ret.y0_50ohm # NoNum) <=>
         (Ge(fwd.ret.RinAtEdge, Fl(5000, -2)) /\ Lt(fwd.ret.RinAtEdge, Fl(1000, 7)))
    /\ fwd.ret.y0_50ohm # NoNum =>
         fwd.ret.y0_50ohm =
           Mul(Div(fwd.ret.L, PI), Acos(Sqrt(Div(Fl(5000, -2), fwd.ret.RinAtEdge))))
    /\ (fwd.ret.RinAtEdge = Fl(5000, -2) /\ IsFinite(fwd.ret.L)) =>
         fwd.ret.y0_50ohm = Zero

\* computeRectangularPatch has returned a result with RinAtEdge in the range
\* and a finite inset.
C8_Witness ==
  /\ fwd.fn = "rect" /\ fwd.pc = "done" /\ fwd.ret # NULL
  /\ Ge(fwd.ret.RinAtEdge, Fl(5000, -2)) /\ Lt(fwd.ret.RinAtEdge, Fl(1000, 7))
  /\ IsFinite(fwd.ret.y0_50ohm)

\* c / (2 sqrt(epsilonReff) (LM + deltaL)) with epsilonReff =
\* effectiveEpsilon(epsilonR, WM, hM) and deltaL the fringing extension at it
C9_Freq(in, epsilonReff) ==
  Div(C, Mul(Mul(Two, Sqrt(epsilonReff)),
             Add(in.LM, deltaL(epsilonReff, in.WM, in.hM))))
\* the forward call computeRectangularPatchReverse makes, finished
C9_Forward(in, frHz) ==
  /\ fwd.fn = "rect" /\ fwd.pc = "done"
  /\ fwd.in = [frHz |-> frHz, epsilonR |-> in.epsilonR, hM |-> in.hM]
C9_Returned(in, frHz) ==
  /\ rev.ret = NULL <=>
       \/ Le(in.WM, Zero) \/ Le(in.LM, Zero) \/ Lt(in.epsilonR, One) \/ Le(in.hM, Zero)
       \/ ~IsFinite(frHz) \/ Le(frHz, Zero)
       \/ (C9_Forward(in, frHz) /\ fwd.ret = NULL)
  /\ rev.ret # NULL =>
       /\ C9_Forward(in, frHz)
       /\ rev.ret.frHz = frHz
       /\ rev.ret.result = fwd.ret

\* C9: computeRectangularPatchReverse computes frHz = c / (2 sqrt(epsilonReff)
\* (LM + deltaL)) in one step, with no iteration; it returns null exactly
\* when its input check fails, or that frHz is not finite or <= 0, or
\* computeRectangularPatch returns null at that frHz, and otherwise returns
\* that frHz with the result of computeRectangularPatch at it.
C9_ReverseRectangular ==
  /\ rev.fn = "rectRev" => nIter = 0
  /\ (rev.fn = "rectRev" /\ rev.pc = "done") =>
       C9_Returned(rev.in, C9_Freq(rev.in,
                     effectiveEpsilon(rev.in.epsilonR, rev.in.WM, rev.in.hM)))

\* computeRectangularPatchReverse, called on its own, has returned a
\* frequency and a result.
C9_Witness ==
  /\ rev.fn = "rectRev" /\ rev.pc = "done" /\ orig = NULL
  /\ rev.ret # NULL /\ IsFinite(rev.ret.frHz) /\ rev.ret.result = fwd.ret

\* the design range: fr in [1e9, 1e10], epsilonR in [2, 10], h in [0.2e-3, 3e-3]
C10_InRange(in) ==
  /\ Ge(in.frHz, Fl(1000, 6)) /\ Le(in.frHz, Fl(1000, 7))
  /\ Ge(in.epsilonR, Two) /\ Le(in.epsilonR, Ten)
  /\ Ge(in.hM, Fl(2000, -7)) /\ Le(in.hM, Fl(3000, -6))
\* |f - f0| <= 1e-3 f0: f and f0 differ by at most one unit in the last of
\* the four digits the numbers of the model keep
C10_Close(f, f0) == Le(Abs(Sub(f, f0)), Mul(Fl(1000, -6), f0))

\* C10: for an input record in the design range on which
\* computeRectangularPatch succeeds, computeRectangularPatchReverse applied to
\* the W and L it returned (same epsilonR and hM) succeeds and returns the
\* original frHz, up to the rounding of the arithmetic.
C10_RoundTrip ==
  (rev.fn = "rectRev" /\ orig # NULL /\ C10_InRange(orig.in) /\ rev.pc = "done") =>
    rev.ret # NULL /\ C10_Close(rev.ret.frHz, orig.in.frHz)

\* A round trip from a record in the design range has finished.
C10_Witness ==
  /\ orig # NULL /\ C10_InRange(orig.in)
  /\ rev.fn = "rectRev" /\ rev.pc = "done" /\ rev.ret # NULL
  /\ rev.in.WM = orig.result.W /\ rev.in.LM = orig.result.L

(***************************************************************************)
(* Properties of the hooks, over Spec.                                     *)
(***************************************************************************)

\* the directivity in what a core call returned
C6_Directivity(call) ==
  IF call.fn \in {"computeRectangularPatch", "computeCircularPatch"}
  THEN call.out.directivityD
  ELSE call.out.result.directivityD

\* C6: in both hooks and both modes, when the core returns a result whose
\* directivityD is not finite, calculate leaves a non-null error and a null
\* result.
C6_NonFiniteDirectivityFails ==
  ( /\ last = "calculate" /\ coreCall # NULL /\ coreCall.out # NULL
    /\ ~IsFinite(C6_Directivity(coreCall)) ) =>
    hook.error # NoError /\ hook.result = NULL

\* epsilonR >= 1, hM > 0 and the primary input > 0, of the record passed to
\* the core
C7_Valid(fn, in) ==
  /\ Ge(in.epsilonR, One) /\ Gt(in.hM, Zero)
  /\ CASE fn \in {"computeRectangularPatch", "computeCircularPatch"} ->
            Gt(in.frHz, Zero)
       [] fn = "computeRectangularPatchReverse" ->
            Gt(in.WM, Zero) /\ Gt(in.LM, Zero)
       [] fn = "computeCircularPatchReverse" -> Gt(in.aM, Zero)
\* the same of the state of a hook, in SI units
C7_PrimaryValid(t, s) ==
  IF s.mode = "frequency" THEN Gt(frequencyToSI(s.frequency, s.frequencyUnit), Zero)
  ELSE IF t = "rectangular"
  THEN Gt(lengthToSI(s.width, s.heightUnit), Zero)
       /\ Gt(lengthToSI(s.length, s.heightUnit), Zero)
  ELSE Gt(lengthToSI(s.radius, s.heightUnit), Zero)
C7_StateValid(t, s) ==
  /\ Ge(s.epsilonR, One) /\ Gt(lengthToSI(s.height, s.heightUnit), Zero)
  /\ C7_PrimaryValid(t, s)
C7_InvalidInput ==
  {"Invalid input: er >= 1, h > 0", "Invalid input: f_r > 0",
   "Invalid input: W > 0, L > 0", "Invalid input: radius a > 0"}

\* C7: in both hooks, calculate calls a core entry point only with
\* epsilonR >= 1, hM > 0 and a primary input > 0; otherwise it sets an
\* 'Invalid input' error, leaves result and computedFrHz null, and makes no
\* core call.
C7_HooksValidate ==
  /\ coreCall # NULL => C7_Valid(coreCall.fn, coreCall.in)
  /\ (last = "calculate" /\ ~C7_StateValid(tab, hook.state)) =>
       /\ hook.error \in C7_InvalidInput
       /\ hook.result = NULL /\ hook.computedFrHz = NoNum
       /\ coreCall = NULL

\* calculate has rejected a state whose only fault is its frequency.
C7_Witness ==
  /\ last = "calculate" /\ hook.state.mode = "frequency"
  /\ Ge(hook.state.epsilonR, One) /\ Gt(hook.state.height, Zero)
  /\ hook.state.frequency = Zero
  /\ hook.error = "Invalid input: f_r > 0" /\ coreCall = NULL

(***************************************************************************)
(* Properties of the core, over CoreSpec: the circular reverse solver,     *)
(* the dimensions, the boundary epsilonR = 1.                              *)
(***************************************************************************)

\* C11: computeCircularPatchReverse enters its bisection loop only when the
\* strict bracket physicalRadius(FLow) < aM < physicalRadius(FHigh) holds
\* after the expansion; when it does not hold, the call returns null.
C11_StrictBracket ==
  (rev.fn = "circRev" /\ rev.pc = "bisect" /\ rev.i = 0) =>
    /\ Lt(physicalRadius(rev.FLow, rev.in.hM, rev.in.epsilonR), rev.in.aM)
    /\ Lt(rev.in.aM, physicalRadius(rev.FHigh, rev.in.hM, rev.in.epsilonR))

\* C12: once its bracket test has passed, computeCircularPatchReverse does
\* not return null for lack of convergence: it returns null only when the
\* forward model does, and after 80 iterations without convergence its frHz
\* is 8.791e7/(F*sqrt(epsilonR)) at the midpoint F of the final
\* [FLow, FHigh], returned with the result of computeCircularPatch at it.
C12_BestEffort ==
  (rev.fn = "circRev" /\ rev.pc = "done" /\ rev.frHz # NoNum) =>
    /\ fwd.fn = "circ" /\ fwd.pc = "done"
    /\ fwd.in = [frHz |-> rev.frHz, epsilonR |-> rev.in.epsilonR, hM |-> rev.in.hM]
    /\ rev.ret = NULL <=> fwd.ret = NULL
    /\ rev.ret # NULL => rev.ret.frHz = rev.frHz /\ rev.ret.result = fwd.ret
    /\ rev.i = MaxBisect =>
         rev.frHz = Div(FConst, Mul(Div(Add(rev.FLow, rev.FHigh), Two),
                                    Sqrt(rev.in.epsilonR)))

\* computeCircularPatchReverse has returned a frequency and a result after 80
\* iterations that did not converge, from a bracket that held strictly.
C12_Witness ==
  /\ rev.fn = "circRev" /\ rev.pc = "done" /\ rev.i = MaxBisect
  /\ IsFinite(rev.in.hM) /\ IsFinite(rev.in.aM) /\ IsFinite(rev.in.epsilonR)
  /\ Lt(rev.FLow, rev.FHigh)
  /\ rev.ret # NULL /\ IsFinite(rev.ret.frHz)

\* C13: for every valid (fr, epsilonR, h) on which computeCircularPatch
\* returns r, computeCircularPatchReverse applied to r.a (same epsilonR and h)
\* succeeds and returns fr, up to the rounding of the arithmetic.
C13_RoundTripAllValid ==
  ( /\ rev.fn = "circRev" /\ rev.pc = "done" /\ orig # NULL
    /\ Gt(orig.in.frHz, Zero) /\ Ge(orig.in.epsilonR, One) /\ Gt(orig.in.hM, Zero) ) =>
    rev.ret # NULL /\ C10_Close(rev.ret.frHz, orig.in.frHz)

\* C13, for the design range: for (fr, epsilonR, h) with fr in [1e9, 1e10],
\* epsilonR in [2, 10], h in [0.2e-3, 3e-3] and r the result of
\* computeCircularPatch, computeCircularPatchReverse applied to r.a (same
\* epsilonR and h) succeeds and returns fr, up to the rounding of the
\* arithmetic.
C13_RoundTripInRange ==
  ( /\ rev.fn = "circRev" /\ rev.pc = "done" /\ orig # NULL
    /\ C10_InRange(orig.in) ) =>
    rev.ret # NULL /\ C10_Close(rev.ret.frHz, orig.in.frHz)

\* A round trip of the circular patch from a record in the design range has
\* finished.
C13_Witness ==
  /\ rev.fn = "circRev" /\ rev.pc = "done" /\ orig # NULL
  /\ C10_InRange(orig.in) /\ rev.in.aM = orig.result.a
  /\ rev.ret # NULL

\* C14: in every non-null result of computeRectangularPatch, L_eff < L.
C14_EffectiveShorter ==
  (fwd.fn = "rect" /\ fwd.pc = "done" /\ fwd.ret # NULL) =>
    Lt(fwd.ret.L_eff, fwd.ret.L)

\* C14, with the order the code computes: L is L_eff minus the fringing
\* extension, so in every non-null result of computeRectangularPatch for an
\* input in the design range L_eff > L, and in every non-null result whose L
\* is a number L_eff >= L.
C14_EffectiveLonger ==
  (fwd.fn = "rect" /\ fwd.pc = "done" /\ fwd.ret # NULL) =>
    /\ fwd.ret.L = Sub(fwd.ret.L_eff,
                       deltaL(fwd.ret.epsilonReff, fwd.ret.W, fwd.in.hM))
    /\ C10_InRange(fwd.in) => Gt(fwd.ret.L_eff, fwd.ret.L)
    /\ ~IsNaN(fwd.ret.L) => Ge(fwd.ret.L_eff, fwd.ret.L)

\* computeRectangularPatch has returned a result for an input in the design
\* range.
C14_Witness ==
  /\ fwd.fn = "rect" /\ fwd.pc = "done" /\ fwd.ret # NULL
  /\ C10_InRange(fwd.in) /\ Gt(fwd.ret.L_eff, fwd.ret.L)

\* epsilonR >= 1, h > 0 and W > 0
C15_Valid(epsilonR, W, h) == Ge(epsilonR, One) /\ Gt(h, Zero) /\ Gt(W, Zero)
\* the two places effectiveEpsilon is applied: computeRectangularPatch (to the
\* W it computed) and computeRectangularPatchReverse (to WM)
C15_Forward == fwd.fn = "rect" /\ "d" \in DOMAIN fwd.loc
C15_Reverse == rev.fn = "rectRev" /\ rev.pc \notin {"entry", "idle"}
C15_RevEps == effectiveEpsilon(rev.in.epsilonR, rev.in.WM, rev.in.hM)

C16_EffectiveRadius ==
  (fwd.fn = "circ" /\ fwd.pc = "done" /\ fwd.ret # NULL) =>
    Ge(fwd.ret.a_e, fwd.ret.a)

\* An input record with epsilonR = 1 and its other fields positive.
C17_Air(fn, in) ==
  /\ in.epsilonR = One
  /\ Gt(in.hM, Zero)
  /\ CASE fn \in {"rect", "circ"} -> Gt(in.frHz, Zero)
       [] fn = "rectRev" -> Gt(in.WM, Zero) /\ Gt(in.LM, Zero)
       [] fn = "circRev" -> Gt(in.aM, Zero)
C17_Invalid(fn, in) ==
  CASE fn = "rect" -> rectInvalid(in)
    [] fn = "circ" -> circInvalid(in)
    [] fn = "rectRev" -> rectRevInvalid(in)
    [] fn = "circRev" -> circRevInvalid(in)

StrictNe(a, b) == IsNaN(a) \/ IsNaN(b) \/ a # b

\* Math.floor
Floor(x) ==
  IF x.c # "fin" \/ x.e >= 0 THEN x
  ELSE IF x.e < -9 THEN (IF x.m < 0 THEN Num(-1, 0) ELSE Zero)
  ELSE Num(x.m \div Pow10(-x.e), 0)

\* the integer a number holds, for a number that is a small integer
IntOf(x) == IF x.e >= 0 THEN x.m * Pow10(x.e) ELSE x.m \div Pow10(-x.e)

\* Math.pow(x, n) for an integer n >= 0
RECURSIVE Pow(_, _)
Pow(x, n) == IF n = 0 THEN One ELSE Mul(x, Pow(x, n - 1))

RECURSIVE factorialFrom(_, _, _)
factorialFrom(i, k, f) ==
  IF i <= k THEN factorialFrom(i + 1, k, Mul(f, Num(i, 0))) ELSE f
factorial(k) ==
  IF k < 0 THEN NaN
  ELSE IF k = 0 \/ k = 1 THEN One
  ELSE factorialFrom(2, k, One)

\* the terms the series is cut at
MaxTerms == 120

\* the test of the order
besselOrderBad(n) == Lt(n, Zero) \/ StrictNe(n, Floor(n))

\* a first term of 1 whatever the order
besselFirstTermOne(n, x2) == One
\* the first term: (x/2)^n / (n! n!), and 1 for n = 0
besselFirstTerm(n, x2) ==
  IF n = Zero THEN One
  ELSE Div(Pow(x2, IntOf(n)), Mul(factorial(IntOf(n)), factorial(IntOf(n))))
\* whether that division is 0/0
besselFirstZeroByZero(n, x2) ==
  /\ Pow(x2, IntOf(n)) = Zero
  /\ Mul(factorial(IntOf(n)), factorial(IntOf(n))) = Zero

\* the factor from one term to the next, its denominator, and the test that
\* ends the loop
besselDen(n, k) == Mul(Num(k + 1, 0), Add(Add(n, Num(k, 0)), One))
\* the factor without its sign
besselFactorUnsigned(x2, n, k) == Div(Mul(x2, x2), besselDen(n, k))
besselFactor(x2, n, k) ==
  Div(Mul(Num(-1, 0), Mul(x2, x2)), besselDen(n, k))
besselBreak(term, sum) ==
  Lt(Abs(term), Mul(Fl(1000, -19), Abs(sum)))

besselCall(n, x) ==
  [fn |-> "besselJ", pc |-> "entry", n |-> n, x |-> x, x2 |-> NoNum,
   k |-> 0, sum |-> Zero, term |-> NoNum, zeroByZero |-> FALSE,
   ret |-> NoNum]
besselReturn(b, value) == [b EXCEPT !.pc = "done", !.ret = value]
besselStart(b, x2, term, zz) ==
  IF ~IsFinite(term)
  THEN besselReturn([b EXCEPT !.x2 = x2, !.term = term, !.zeroByZero = zz], Zero)
  ELSE [b EXCEPT !.pc = "loop", !.x2 = x2, !.term = term, !.zeroByZero = zz]
besselIter(b, sum, term) ==
  IF besselBreak(term, sum)
  THEN besselReturn([b EXCEPT !.sum = sum, !.term = term], sum)
  ELSE [b EXCEPT !.sum = sum, !.term = term, !.k = b.k + 1]

\* besselJ up to the loop
BesselEntry ==
  /\ lib.fn = "besselJ" /\ lib.pc = "entry"
  /\ lib' = IF ~IsFinite(lib.x) THEN besselReturn(lib, NaN)
            ELSE IF besselOrderBad(lib.n) THEN besselReturn(lib, NaN)
            ELSE besselStart(lib, Div(lib.x, Two),
                             besselFirstTerm(lib.n, Div(lib.x, Two)),
                             besselFirstZeroByZero(lib.n, Div(lib.x, Two)))
  /\ UNCHANGED <<quad, coreVars, hookVars>>

\* one turn of the loop, or the return after the last
BesselLoop ==
  /\ lib.fn = "besselJ" /\ lib.pc = "loop"
  /\ lib' = IF lib.k >= MaxTerms THEN besselReturn(lib, lib.sum)
            ELSE besselIter([lib EXCEPT !.zeroByZero =
                                lib.zeroByZero \/ (Mul(lib.x2, lib.x2) = Zero
                                                   /\ besselDen(lib.n, lib.k) = Zero)],
                            Add(lib.sum, lib.term),
                            Mul(lib.term, besselFactor(lib.x2, lib.n, lib.k)))
  /\ UNCHANGED <<quad, coreVars, hookVars>>

\* Rationals p/q in lowest terms, q > 0.
RECURSIVE Gcd(_, _)
Gcd(a, b) == IF b = 0 THEN a ELSE Gcd(b, a % b)
RatOf(p, q, g) == [p |-> (SgnI(q) * p) \div g, q |-> AbsI(q) \div g]
Rat(p, q) == RatOf(p, q, Gcd(AbsI(p), AbsI(q)))
RatAdd(a, b) == Rat(a.p * b.q + b.p * a.q, a.q * b.q)
RatSub(a, b) == Rat(a.p * b.q - b.p * a.q, a.q * b.q)
RatMul(a, b) == Rat(a.p * b.p, a.q * b.q)
RatDiv(a, b) == Rat(a.p * b.q, a.q * b.p)

\* the integrands x -> 1 and x -> x^2
simpsonF(f, x) == IF f = "one" THEN Rat(1, 1) ELSE RatMul(x, x)

\* the weights with 2 and 4 exchanged
simpsonWeightSwapped(i) == IF i % 2 = 0 THEN 4 ELSE 2
\* the weight of the i-th sample
simpsonWeight(i) == IF i % 2 = 0 THEN 2 ELSE 4

simpsonCall(f, a, b, n) ==
  [fn |-> "simpson", pc |-> "entry", f |-> f, a |-> a, b |-> b, n0 |-> n,
   n |-> n, h |-> Rat(0, 1), i |-> 0, sum |-> Rat(0, 1), ret |-> NULL]
simpsonSample(c, i) ==
  RatMul(Rat(simpsonWeight(i), 1),
         simpsonF(c.f, RatAdd(c.a, RatMul(Rat(i, 1), c.h))))
\* n left as it is
simpsonEvenKept(n) == n
simpsonEven(n) == IF n % 2 # 0 THEN n + 1 ELSE n

\* simpson up to the loop
SimpsonEntry ==
  /\ lib.fn = "simpson" /\ lib.pc = "entry"
  /\ lib' = [lib EXCEPT !.pc = "loop", !.n = simpsonEven(lib.n0),
               !.h = RatDiv(RatSub(lib.b, lib.a), Rat(simpsonEven(lib.n0), 1)),
               !.sum = RatAdd(simpsonF(lib.f, lib.a), simpsonF(lib.f, lib.b)),
               !.i = 1]
  /\ UNCHANGED <<quad, coreVars, hookVars>>

\* one turn of the loop, or the return after the last
SimpsonLoop ==
  /\ lib.fn = "simpson" /\ lib.pc = "loop"
  /\ lib' = IF lib.i < lib.n
            THEN [lib EXCEPT !.sum = RatAdd(lib.sum, simpsonSample(lib, lib.i)),
                             !.i = lib.i + 1]
            ELSE [lib EXCEPT !.pc = "done",
                             !.ret = RatMul(RatDiv(lib.h, Rat(3, 1)), lib.sum)]
  /\ UNCHANGED <<quad, coreVars, hookVars>>

\* the integrands (x, y) -> 1 and (x, y) -> x * y^2
simpson2DF(f, x, y) == IF f = "one" THEN Rat(1, 1) ELSE RatMul(x, RatMul(y, y))

\* simpson(g, c, d, nInner) for g(y) = f(x, y), as one call
RECURSIVE simpsonInnerSum(_, _, _, _, _, _)
simpsonInnerSum(f, x, c, h, n, i) ==
  IF i >= n THEN Rat(0, 1)
  ELSE RatAdd(RatMul(Rat(simpsonWeight(i), 1),
                     simpson2DF(f, x, RatAdd(c, RatMul(Rat(i, 1), h)))),
              simpsonInnerSum(f, x, c, h, n, i + 1))
simpsonInnerOf(f, x, c, d, n, h) ==
  RatMul(RatDiv(h, Rat(3, 1)),
         RatAdd(RatAdd(simpson2DF(f, x, c), simpson2DF(f, x, d)),
                simpsonInnerSum(f, x, c, h, n, 1)))
simpsonInner(f, x, c, d, n) ==
  simpsonInnerOf(f, x, c, d, simpsonEven(n),
                 RatDiv(RatSub(d, c), Rat(simpsonEven(n), 1)))

\* the weight of the i-th outer sample
simpson2DWeight(i, nOuter) ==
  IF i = 0 \/ i = nOuter THEN 1 ELSE IF i % 2 = 0 THEN 2 ELSE 4
simpson2DCall(f, a, b, c, d, nOuter, nInner) ==
  [fn |-> "simpson2D", pc |-> "entry", f |-> f, a |-> a, b |-> b, c |-> c,
   d |-> d, nOuter |-> nOuter, nInner |-> nInner, hOuter |-> Rat(0, 1),
   i |-> 0, total |-> Rat(0, 1), weights |-> <<>>, ret |-> NULL]
simpson2DTerm(s, i) ==
  RatMul(Rat(simpson2DWeight(i, s.nOuter), 1),
         simpsonInner(s.f, RatAdd(s.a, RatMul(Rat(i, 1), s.hOuter)),
                      s.c, s.d, s.nInner))

\* simpson2D up to the loop
Simpson2DEntry ==
  /\ lib.fn = "simpson2D" /\ lib.pc = "entry"
  /\ lib' = [lib EXCEPT !.pc = "loop",
               !.hOuter = RatDiv(RatSub(lib.b, lib.a), Rat(lib.nOuter, 1)),
               !.total = Rat(0, 1), !.i = 0]
  /\ UNCHANGED <<quad, coreVars, hookVars>>

\* one turn of the loop, or the return after the last; weights records the
\* weight given to each outer sample
Simpson2DLoop ==
  /\ lib.fn = "simpson2D" /\ lib.pc = "loop"
  /\ lib' = IF lib.i <= lib.nOuter
            THEN [lib EXCEPT !.total = RatAdd(lib.total, simpson2DTerm(lib, lib.i)),
                             !.weights = Append(lib.weights,
                                                simpson2DWeight(lib.i, lib.nOuter)),
                             !.i = lib.i + 1]
            ELSE [lib EXCEPT !.pc = "done",
                             !.ret = RatMul(RatDiv(lib.hOuter, Rat(3, 1)), lib.total)]
  /\ UNCHANGED <<quad, coreVars, hookVars>>

\* Math.sin by its series, for the arguments (k0*W/2)*cos(theta) of the
\* integrands, which stay within [-pi/2, pi/2]
SinTail(x2) ==
  Sub(One, Mul(Div(x2, Num(20, 0)),
               Sub(One, Mul(Div(x2, Num(42, 0)), Sub(One, Div(x2, Num(72, 0)))))))
SinOf(x, x2) == Mul(x, Sub(One, Mul(Div(x2, Num(6, 0)), SinTail(x2))))
Sin(x) == SinOf(x, Mul(x, x))

\* The integrands of computeRectangularPatch at one sample: cosT and sinT
\* are Math.cos(theta) and Math.sin(theta), kW is k0Val * W, j0Val is
\* safeBesselJ0(k0Val * L * sinT), cosInner is Math.cos(inner).
eps == Fl(1000, -15)
\* the test that only catches cos(theta) = 0 itself
integrandNearPoleExact(cosT) == cosT = Zero
integrandNearPole(cosT) == Lt(Abs(cosT), eps)
integrandLimit(kW) == Mul(Div(kW, Two), Div(kW, Two))
integrandQuotient(kW, cosT) ==
  Pow(Div(Sin(Mul(Div(kW, Two), cosT)), cosT), 2)
integrandFactor(kW, cosT) ==
  IF integrandNearPole(cosT) THEN integrandLimit(kW)
  ELSE integrandQuotient(kW, cosT)
integrandG1(s) == Mul(integrandFactor(s.kW, s.cosT), Pow(s.sinT, 3))
integrandG12(s) ==
  Mul(Mul(integrandFactor(s.kW, s.cosT), s.j0Val), Pow(s.sinT, 3))
integrandI1(s) ==
  Mul(Mul(integrandFactor(s.kW, s.cosT), Pow(s.sinT, 3)), Pow(s.cosInner, 2))
integrandValue(s) ==
  CASE s.which = "G1" -> integrandG1(s)
    [] s.which = "G12" -> integrandG12(s)
    [] s.which = "I1" -> integrandI1(s)
integrandCall(which, cosT, sinT, kW, j0Val, cosInner) ==
  [fn |-> "integrand", pc |-> "entry", which |-> which, cosT |-> cosT,
   sinT |-> sinT, kW |-> kW, j0Val |-> j0Val, cosInner |-> cosInner,
   divisor |-> NoNum, ret |-> NoNum]

\* one evaluation of an integrand; divisor is what it divided by, if it did
IntegrandEval ==
  /\ lib.fn = "integrand" /\ lib.pc = "entry"
  /\ lib' = [lib EXCEPT !.pc = "done",
               !.divisor = IF integrandNearPole(lib.cosT) THEN NoNum ELSE lib.cosT,
               !.ret = integrandValue(lib)]
  /\ UNCHANGED <<quad, coreVars, hookVars>>

\* The calls followed: every kind of order and argument of besselJ, and
\* simpson of the two integrands on [0, 1] and on [-1, 2].
BesselOrders ==
  {NaN, Num(-1, 0), Num(-25, -1), Num(5, -1), Num(15, -1), Zero, One, Two,
   Num(3, 0), Num(12, 0)}
BesselArgs ==
  {NaN, PosInf, NegInf, Zero, Num(1, -3), One, Num(1841, -3), Num(-3, 0),
   Num(50, 0), Num(1, 4), Num(1, 200)}
MaxSimpsonN == 9
SimpsonCalls ==
  {simpsonCall(f, ab[1], ab[2], n) :
     f \in {"one", "square"},
     ab \in {<<Rat(0, 1), Rat(1, 1)>>, <<Rat(-1, 1), Rat(2, 1)>>},
     n \in 1..MaxSimpsonN}

\* The samples of the integrands: (cos(theta), sin(theta)) for angles of
\* [0, pi], among them pi/2 as Math.cos gives it (6.123e-17), 0, and values
\* on both sides of the threshold.
IntegrandAngles ==
  {<<One, Zero>>, <<Num(8660, -4), Half>>, <<Half, Num(8660, -4)>>,
   <<Num(6123, -20), One>>, <<Zero, One>>, <<Num(-1, -13), One>>,
   <<Num(9999, -16), One>>, <<Fl(1000, -15), One>>, <<Num(-1, -12), One>>,
   <<Num(-5, -1), Num(8660, -4)>>, <<Num(-1, 0), Num(1225, -19)>>}
IntegrandCalls ==
  {integrandCall("G1", cs[1], cs[2], kW, NoNum, NoNum) :
     cs \in IntegrandAngles, kW \in {One, Num(1911, -3), Num(3, 0)}}
  \cup {integrandCall("G12", cs[1], cs[2], kW, j0, NoNum) :
     cs \in IntegrandAngles, kW \in {One, Num(1911, -3), Num(3, 0)},
     j0 \in {One, Num(-3, -1), Zero}}
  \cup {integrandCall("I1", cs[1], cs[2], kW, NoNum, ci) :
     cs \in IntegrandAngles, kW \in {One, Num(1911, -3), Num(3, 0)},
     ci \in {One, Num(7, -1), Zero}}

\* simpson2D of the two integrands on [0, 1] x [0, 2] and [-1, 2] x [1, 3]
MaxOuterN == 5
Simpson2DCalls ==
  {simpson2DCall(f, r[1], r[2], r[3], r[4], nOuter, nInner) :
     f \in {"one", "xy2"},
     r \in {<<Rat(0, 1), Rat(1, 1), Rat(0, 1), Rat(2, 1)>>,
            <<Rat(-1, 1), Rat(2, 1), Rat(1, 1), Rat(3, 1)>>},
     nOuter \in 2..MaxOuterN, nInner \in {2, 3}}

LibInit ==
  /\ quad = TypicalQuad
  /\ HookIdle
  /\ CoreIdle
  /\ \/ \E n \in BesselOrders, x \in BesselArgs : lib = besselCall(n, x)
     \/ lib \in SimpsonCalls
     \/ lib \in IntegrandCalls
     \/ lib \in Simpson2DCalls

LibNext ==
  \/ BesselEntry \/ BesselLoop \/ SimpsonEntry \/ SimpsonLoop
  \/ Simpson2DEntry \/ Simpson2DLoop
  \/ IntegrandEval

LibSpec == LibInit /\ [][LibNext]_vars

(***************************************************************************)
(* Properties of the numeric library, over LibSpec.                        *)
(***************************************************************************)

\* an order that is a non-negative integer
C18_Order(n) == IsFinite(n) /\ n.m >= 0 /\ (n.e >= 0 \/ n.m % Pow10(-n.e) = 0)
C18_Returned == lib.fn = "besselJ" /\ lib.pc = "done"

\* C18: besselJ(n, x) returns not-a-number for every negative n and every
\* non-integer n, and for every non-negative integer n with finite x it
\* returns a number, not the not-a-number of the order validation.
C18_NaNOnlyForBadOrder ==
  C18_Returned =>
    /\ ~C18_Order(lib.n) => IsNaN(lib.ret)
    /\ (C18_Order(lib.n) /\ IsFinite(lib.x)) => ~IsNaN(lib.ret)

\* C19: besselJ(0, 0) = 1 and besselJ(n, 0) = 0 for every positive integer
\* order n, and no division of the call is 0/0.
C19_AtZero ==
  (lib.fn = "besselJ" /\ lib.x = Zero /\ C18_Order(lib.n)) =>
    /\ ~lib.zeroByZero
    /\ lib.pc = "done" => lib.ret = (IF lib.n = Zero THEN One ELSE Zero)

\* besselJ(2, 0) has returned 0.
C19_Witness ==
  /\ C18_Returned /\ lib.x = Zero /\ lib.n = Two
  /\ lib.ret = Zero /\ ~lib.zeroByZero

\* C20: for every even n >= 2, simpson(x -> 1, 0, 1, n) = 1 and
\* simpson(x -> x^2, 0, 1, n) = 1/3, in rational arithmetic.
C20_SimpsonExact ==
  (/\ lib.fn = "simpson" /\ lib.pc = "done"
   /\ lib.a = Rat(0, 1) /\ lib.b = Rat(1, 1)
   /\ lib.n0 >= 2 /\ lib.n0 % 2 = 0) =>
    lib.ret = (IF lib.f = "one" THEN Rat(1, 1) ELSE Rat(1, 3))

\* simpson(x -> x^2, 0, 1, 4) has returned 1/3.
C20_Witness ==
  /\ lib.fn = "simpson" /\ lib.pc = "done" /\ lib.f = "square"
  /\ lib.a = Rat(0, 1) /\ lib.b = Rat(1, 1) /\ lib.n0 = 4
  /\ lib.ret = Rat(1, 3)

(***************************************************************************)
(* Properties of the core, over CoreSpec: the loops of                     *)
(* computeCircularPatchReverse.                                            *)
(***************************************************************************)

\* computeCircularPatchReverse is in, or just past, its two expansion loops.
C21_Expanding == rev.fn = "circRev" /\ rev.pc \in {"expandLow", "expandHigh", "bracket"}
\* 1e-5 halved k times, 0.1 doubled k times
RECURSIVE C21_Halved(_)
C21_Halved(k) == IF k = 0 THEN FLow0 ELSE halveLow(C21_Halved(k - 1))
RECURSIVE C21_Doubled(_)
C21_Doubled(k) == IF k = 0 THEN FHigh0 ELSE doubleHigh(C21_Doubled(k - 1))

\* C21: during the bracket expansion FLow >= 1e-7 and FHigh <= 0.5.
C21_WithinFloorAndCeiling ==
  C21_Expanding => Ge(rev.FLow, Fl(1000, -10)) /\ Le(rev.FHigh, Half)

\* C21, with the bounds the loops keep: FLow is 1e-5 halved some times and
\* FHigh is 0.1 doubled some times; a bound is changed only while it is
\* beyond 1e-7 (0.5), so FLow stays above 1e-7/2 and FHigh below 2*0.5.
C21_OneStepBeyond ==
  C21_Expanding =>
    /\ \E k \in 0..7 : rev.FLow = C21_Halved(k)
    /\ \E k \in 0..3 : rev.FHigh = C21_Doubled(k)
    /\ Gt(rev.FLow, Mul(Fl(1000, -10), Half))
    /\ Lt(rev.FHigh, Mul(Half, Two))
    /\ rev.pc = "expandLow" => rev.FHigh = FHigh0

\* The expansion has ended with FLow below 1e-7.
C21_Witness ==
  /\ rev.fn = "circRev" /\ rev.pc = "bracket"
  /\ Lt(rev.FLow, Fl(1000, -10)) /\ IsFinite(rev.in.aM) /\ IsFinite(rev.in.hM)

\* physicalRadius at a bound of the running computeCircularPatchReverse
C22_Radius(FVal) == physicalRadius(FVal, rev.in.hM, rev.in.epsilonR)
\* At the start of a bisection iteration, with aM and the radii at the two
\* bounds numbers (as they are when physicalRadius is increasing).
C22_Iteration ==
  /\ rev.fn = "circRev" /\ rev.pc = "bisect"
  /\ ~IsNaN(rev.in.aM)
  /\ ~IsNaN(C22_Radius(rev.FLow)) /\ ~IsNaN(C22_Radius(rev.FHigh))
C22_Bracket ==
  C22_Iteration =>
    /\ Lt(rev.FLow, rev.FHigh)
    /\ Le(C22_Radius(rev.FLow), rev.in.aM)
    /\ Le(rev.in.aM, C22_Radius(rev.FHigh))
\* an iteration that does not terminate
C22_Continues ==
  /\ rev.fn = "circRev" /\ rev.pc = "bisect" /\ rev.i < MaxBisect
  /\ rev'.pc = "bisect" /\ rev'.i = rev.i + 1
C22_OneBoundReplaced ==
  \/ rev'.FLow = midpoint(rev.FLow, rev.FHigh) /\ rev'.FHigh = rev.FHigh
  \/ rev'.FHigh = midpoint(rev.FLow, rev.FHigh) /\ rev'.FLow = rev.FLow
C22_Shrinks == Lt(Sub(rev'.FHigh, rev'.FLow), Sub(rev.FHigh, rev.FLow))

\* C22: at the start of every bisection iteration FLow < FHigh and
\* physicalRadius(FLow) <= aM <= physicalRadius(FHigh), and each iteration
\* that does not terminate replaces one bound by the midpoint and makes
\* FHigh - FLow smaller.
C22_IntervalHalved ==
  /\ [](rev.fn = "circRev" /\ rev.pc = "bisect" /\ ~IsNaN(C22_Radius(rev.FLow))
        /\ ~IsNaN(C22_Radius(rev.FHigh))
        => /\ Lt(rev.FLow, rev.FHigh)
           /\ Le(C22_Radius(rev.FLow), rev.in.aM)
           /\ Le(rev.in.aM, C22_Radius(rev.FHigh)))
  /\ [][C22_Continues => C22_OneBoundReplaced /\ C22_Shrinks]_vars

\* C22, for aM a number and up to the resolution of the numbers: the bracket
\* is kept, each iteration that does not terminate replaces exactly one bound
\* by the midpoint, the midpoint lies within the bounds, and FHigh - FLow gets
\* smaller unless the midpoint is one of the bounds.
C22_BracketKept ==
  /\ []C22_Bracket
  /\ [][C22_Continues =>
          /\ C22_OneBoundReplaced
          /\ Le(rev.FLow, midpoint(rev.FLow, rev.FHigh))
          /\ Le(midpoint(rev.FLow, rev.FHigh), rev.FHigh)
          /\ midpoint(rev.FLow, rev.FHigh) \notin {rev.FLow, rev.FHigh}
               => C22_Shrinks]_vars

\* A bisection of a round trip in the design range after both bounds have
\* been replaced.
C22_Witness ==
  /\ C22_Iteration /\ rev.i >= 2 /\ orig # NULL /\ C10_InRange(orig.in)
  /\ Gt(rev.FLow, FLow0) /\ Lt(rev.FHigh, FHigh0)
  /\ Lt(C22_Radius(rev.FLow), rev.in.aM)

\* The halvings and doublings made so far are within 7 and 3, and the
\* bisection iterations within 80.
C23_LoopBounds ==
  rev.fn = "circRev" =>
    /\ rev.pc = "expandLow" => nIter <= 7 /\ rev.FLow = C21_Halved(nIter)
    /\ rev.pc \in {"expandHigh", "bracket"} =>
         \E k \in 0..7, j \in 0..3 :
           /\ nIter = k + j
           /\ rev.FLow = C21_Halved(k) /\ rev.FHigh = C21_Doubled(j)
    /\ rev.pc = "bisect" => rev.i <= MaxBisect
    /\ nIter <= 7 + 3 + rev.i
    /\ rev.i <= MaxBisect
\* The bisection loop is left before its 80th iteration exactly when
\* |physicalRadius(FMid) - aM| < 1e-12 * aM.
C23_EarlyExit ==
  (rev.fn = "circRev" /\ rev.pc = "bisect" /\ rev.i < MaxBisect) =>
    (rev'.pc # "bisect" <=>
       Lt(Abs(Sub(C22_Radius(midpoint(rev.FLow, rev.FHigh)), rev.in.aM)),
          Mul(Fl(1000, -15), rev.in.aM)))

\* C23: computeCircularPatchReverse terminates for every input: at most 7
\* halvings of FLow, at most 3 doublings of FHigh, at most 80 bisection
\* iterations, left early exactly when |physicalRadius(FMid) - aM| <
\* 1e-12 * aM; and the call returns.
C23_Terminates ==
  /\ []C23_LoopBounds
  /\ [][C23_EarlyExit]_vars
  /\ (rev.fn = "circRev") ~> (rev.fn = "circRev" /\ rev.pc = "done")

\* computeCircularPatchReverse has returned a result after 80 bisection
\* iterations, none of which met the tolerance.
C23_Witness ==
  /\ rev.fn = "circRev" /\ rev.pc = "done" /\ rev.i = MaxBisect
  /\ nIter >= MaxBisect /\ rev.ret # NULL

\* C24: an integrand of computeRectangularPatch divides by cos(theta) only
\* when |cos(theta)| >= 1e-12, so never by zero; below the threshold it puts
\* (k0*W/2)^2 in the place of [sin((k0*W/2)cos(theta))/cos(theta)]^2 and keeps
\* the other factors: sin^3(theta), J0 for G12, the cos^2 term for I1.
C24_Evaluated == lib.fn = "integrand" /\ lib.pc = "done"
C24_Rest(factor) ==
  CASE lib.which = "G1" -> Mul(factor, Mul(lib.sinT, Mul(lib.sinT, lib.sinT)))
    [] lib.which = "G12" ->
         Mul(Mul(factor, lib.j0Val), Mul(lib.sinT, Mul(lib.sinT, lib.sinT)))
    [] lib.which = "I1" ->
         Mul(Mul(factor, Mul(lib.sinT, Mul(lib.sinT, lib.sinT))),
             Mul(lib.cosInner, lib.cosInner))
C24_Quotient == Div(Sin(Mul(Div(lib.kW, Two), lib.cosT)), lib.divisor)
C24_NoDivisionByZero ==
  C24_Evaluated =>
    /\ lib.divisor # NoNum <=> Ge(Abs(lib.cosT), Fl(1000, -15))
    /\ lib.divisor # NoNum =>
         /\ lib.divisor = lib.cosT /\ lib.divisor # Zero
         /\ lib.ret = C24_Rest(Mul(C24_Quotient, C24_Quotient))
    /\ lib.divisor = NoNum =>
         lib.ret = C24_Rest(Mul(Div(lib.kW, Two), Div(lib.kW, Two)))

\* An integrand was evaluated at theta = pi/2, where Math.cos gives 6.123e-17,
\* and the limit stood in for the quotient.
C24_Witness ==
  /\ C24_Evaluated /\ lib.cosT = Num(6123, -20) /\ lib.divisor = NoNum
  /\ lib.which = "G12" /\ Gt(lib.ret, Zero)

\* C25: for every nOuter >= 2, even or odd, simpson2D weights its outer
\* samples 1, 4, 2, ..., 4, 1 (the last interior sample 4), takes simpson over
\* the inner variable at each of them and scales by hOuter / 3, so simpson2D
\* of the constant 1 over [a, b] x [c, d] is (b - a) * (d - c).
C25_Returned == lib.fn = "simpson2D" /\ lib.pc = "done" /\ lib.nOuter >= 2
C25_Area == RatMul(RatSub(lib.b, lib.a), RatSub(lib.d, lib.c))
C25_ConstantExact ==
  C25_Returned =>
    /\ Len(lib.weights) = lib.nOuter + 1
    /\ lib.weights[1] = 1 /\ lib.weights[lib.nOuter + 1] = 1
    /\ lib.weights[lib.nOuter] = 4
    /\ lib.f = "one" => lib.ret = C25_Area

\* The same for even nOuter, which holds.
C25_EvenOuter ==
  (C25_Returned /\ lib.nOuter % 2 = 0) =>
    /\ Len(lib.weights) = lib.nOuter + 1
    /\ lib.weights[1] = 1 /\ lib.weights[lib.nOuter + 1] = 1
    /\ lib.weights[lib.nOuter] = 4
    /\ \A j \in 2..lib.nOuter : lib.weights[j] = IF j % 2 = 0 THEN 4 ELSE 2
    /\ lib.f = "one" => lib.ret = C25_Area

\* C26: simpson with odd n returns what it returns with n + 1; for the even
\* n it evaluates f at the n + 1 points a + i*h, h = (b - a)/n, weights the
\* two endpoints 1, the odd interior points 4 and the even ones 2, and
\* returns h/3 times the weighted sum.
C26_N == IF lib.n0 % 2 = 1 THEN lib.n0 + 1 ELSE lib.n0
C26_H == RatDiv(RatSub(lib.b, lib.a), Rat(C26_N, 1))
C26_At(i) == simpsonF(lib.f, RatAdd(lib.a, RatMul(Rat(i, 1), C26_H)))
RECURSIVE C26_Interior(_)
C26_Interior(i) ==
  IF i = 0 THEN Rat(0, 1)
  ELSE RatAdd(C26_Interior(i - 1),
              RatMul(Rat(IF i % 2 = 1 THEN 4 ELSE 2, 1), C26_At(i)))
C26_OddRoundedUp ==
  (lib.fn = "simpson" /\ lib.pc # "entry") =>
    /\ lib.n = C26_N /\ lib.h = C26_H
    /\ lib.i \in 1..lib.n
    /\ lib.sum = RatAdd(RatAdd(C26_At(0), C26_At(C26_N)), C26_Interior(lib.i - 1))
    /\ lib.pc = "done" =>
         /\ lib.i = lib.n
         /\ lib.ret = RatMul(RatDiv(C26_H, Rat(3, 1)),
                             RatAdd(RatAdd(C26_At(0), C26_At(C26_N)),
                                    C26_Interior(C26_N - 1)))

\* simpson(x -> x^2, -1, 2, 3) has returned 3, the value for n = 4.
C26_Witness ==
  /\ lib.fn = "simpson" /\ lib.pc = "done" /\ lib.n0 = 3 /\ lib.n = 4
  /\ lib.f = "square" /\ lib.a = Rat(-1, 1) /\ lib.ret = Rat(3, 1)

\* C27: for a non-negative integer n and finite x the summation loop of
\* besselJ adds at most 120 terms; it stops as soon as the next term is below
\* 1e-16 times the running sum in magnitude; each term is the one before
\* times -(x/2)^2 / ((k+1)(n+k+1)); and the value returned is the sum of the
\* terms added.
C27_Call == lib.fn = "besselJ" /\ C18_Order(lib.n) /\ IsFinite(lib.x)
C27_Bounded ==
  C27_Call =>
    /\ lib.k <= MaxTerms
    /\ (lib.pc = "done" /\ lib.k < MaxTerms) =>
         \/ Lt(Abs(lib.term), Mul(Fl(1000, -19), Abs(lib.sum)))
         \/ (~IsFinite(lib.term) /\ lib.k = 0 /\ lib.sum = Zero)
    /\ lib.pc = "done" => lib.ret = lib.sum
C27_NextTerm ==
  Mul(lib.term,
      Div(Mul(Num(-1, 0), Mul(Div(lib.x, Two), Div(lib.x, Two))),
          Mul(Num(lib.k + 1, 0), Add(Add(lib.n, Num(lib.k, 0)), One))))
C27_Turn ==
  (C27_Call /\ lib.pc = "loop" /\ lib.k < MaxTerms) =>
    /\ lib'.sum = Add(lib.sum, lib.term)
    /\ lib'.term = C27_NextTerm
    /\ lib'.pc = "done" <=>
         Lt(Abs(C27_NextTerm), Mul(Fl(1000, -19), Abs(Add(lib.sum, lib.term))))
    /\ lib'.pc # "done" => (lib'.pc = "loop" /\ lib'.k = lib.k + 1)
C27_Summation == []C27_Bounded /\ [][C27_Turn]_vars

\* besselJ(1, 1) has returned after a few terms, the next one below the
\* threshold.
C27_Witness ==
  /\ C18_Returned /\ lib.n = One /\ lib.x = One
  /\ lib.k \in 2..(MaxTerms - 1) /\ lib.ret = lib.sum /\ Gt(lib.ret, Zero)

\* C28: when computeRectangularPatchReverse succeeds, the result record
\* describes the patch supplied: result.W is the input WM and result.L is the
\* input LM, for every valid (WM, LM, epsilonR, hM).
C28_ResultDescribesInput ==
  (rev.fn = "rectRev" /\ rev.pc = "done" /\ rev.ret # NULL) =>
    /\ rev.ret.result.W = rev.in.WM
    /\ rev.ret.result.L = rev.in.LM

(***************************************************************************)
(* Properties of the hooks, over Spec: what they hold together.            *)
(***************************************************************************)
\* C29: in both hooks, after any updateState and calculate calls, an error
\* comes with no result and no computedFrHz, a computedFrHz comes with a
\* result, and right after calculate exactly one of result and error is set.
C29_HookConsistent ==
  /\ hook.error # NoError => (hook.result = NULL /\ hook.computedFrHz = NoNum)
  /\ hook.computedFrHz # NoNum => hook.result # NULL
  /\ last = "calculate" => ((hook.result # NULL) <=> (hook.error = NoError))

\* calculate of the circular hook has failed on a radius of 0 in dimensions
\* mode: the error is set, and neither a result nor a computedFrHz with it.
C29_Witness ==
  /\ tab = "circular" /\ last = "calculate"
  /\ hook.error # NoError /\ hook.result = NULL /\ hook.computedFrHz = NoNum
  /\ hook.state.mode = "dimensions" /\ hook.state.radius = Zero

\* C30: in both hooks, after any updateState and calculate calls,
\* computedFrHz is set only while state.mode = 'dimensions', so the
\* calculators show the 'Resonant frequency' row only in dimensions mode.
C30_FrequencyOnlyInDimensions ==
  /\ hook.computedFrHz # NoNum => hook.state.mode = "dimensions"
  /\ resonantFrequencyRow(hook) => hook.state.mode = "dimensions"

====
